---- MODULE Spec2Model ----
(***************************************************************************)
(* A model of Repoman's agent orchestration layer: the protected-pattern   *)
(* write gate of FileOperations, the working tree / index / HEAD of        *)
(* GitOperations, and the RepoAgent operations that sequence them under    *)
(* the dry-run and auto-commit policies.                                   *)
(*                                                                         *)
(* Text (file contents, commit messages, patterns, branch names) is        *)
(* modelled by TLA+ strings, taken apart with Len, Head, Tail, SubSeq and  *)
(* \o.  A path is the record of its segments and of whether it is          *)
(* absolute.  The file system holds no symbolic links, so Path.resolve()   *)
(* is the lexical normalisation of "." and ".." segments.                  *)
(***************************************************************************)
EXTENDS Integers, Sequences, FiniteSets, TLC

(***************************************************************************)
(* Bounds of the model.                                                    *)
(***************************************************************************)
\* the number of commits a behaviour may add to the history
MaxCommits == 1

\* the number of lines of a text handed to _clean_code_output
MaxLines == 3

\* the length of the longest pattern list handed to analyze_codebase
MaxPatterns == 51

(***************************************************************************)
(* Strings.                                                                *)
(***************************************************************************)
\* str.startswith(prefix)
StartsWith(s, prefix) ==
    /\ Len(s) >= Len(prefix)
    /\ SubSeq(s, 1, Len(prefix)) = prefix

Last(seq) == seq[Len(seq)]

RECURSIVE Contains(_, _)
\* sub in s
Contains(s, sub) ==
    IF Len(s) < Len(sub) THEN FALSE
    ELSE StartsWith(s, sub) \/ Contains(Tail(s), sub)

RECURSIVE LStrip(_, _)
\* str.lstrip(chars): drop leading characters that are in chars
LStrip(s, chars) ==
    IF s # "" /\ Head(s) \in chars THEN LStrip(Tail(s), chars) ELSE s

RECURSIVE RStrip(_, _)
\* str.rstrip(chars): drop trailing characters that are in chars
RStrip(s, chars) ==
    IF s # "" /\ SubSeq(s, Len(s), Len(s)) \in chars
    THEN RStrip(SubSeq(s, 1, Len(s) - 1), chars)
    ELSE s

\* str.strip(chars)
Strip(s, chars) == RStrip(LStrip(s, chars), chars)

\* the characters str.strip() removes when called without an argument
Whitespace == {" ", "\t", "\n", "\r", "\f"}

\* the backtick, which a TLA+ string cannot hold, is written "~"
Backtick == "~"

(***************************************************************************)
(* pathlib.  A path is the value Path(file_path) holds: whether it is      *)
(* absolute, and its segments.  PurePath never collapses a ".." segment.   *)
(***************************************************************************)
\* the relative path with these segments
Rel(segs) == [abs |-> FALSE, segs |-> segs]

\* the absolute path with these segments
Abs(segs) == [abs |-> TRUE, segs |-> segs]

RECURSIVE JoinSegs(_)
\* the segments joined by "/"
JoinSegs(segs) ==
    IF segs = <<>> THEN ""
    ELSE IF Len(segs) = 1 THEN segs[1]
    ELSE segs[1] \o "/" \o JoinSegs(Tail(segs))

\* str() of a relative path with these segments
RelStr(segs) == IF segs = <<>> THEN "." ELSE JoinSegs(segs)

RECURSIVE NormalizeFrom(_, _)
\* ".." removes the segment before it; at the root it is dropped
NormalizeFrom(segs, acc) ==
    IF segs = <<>> THEN acc
    ELSE IF Head(segs) = ".."
         THEN NormalizeFrom(Tail(segs),
                            IF acc = <<>> THEN acc
                            ELSE SubSeq(acc, 1, Len(acc) - 1))
         ELSE NormalizeFrom(Tail(segs), Append(acc, Head(segs)))

\* the segments of the directory entry that the segments of an absolute path
\* lead to
Normalize(segs) == NormalizeFrom(segs, <<>>)

\* one sequence is a prefix of the other
IsPrefix(pre, segs) ==
    /\ Len(pre) <= Len(segs)
    /\ SubSeq(segs, 1, Len(pre)) = pre

(***************************************************************************)
(* fnmatch.fnmatch on POSIX: "*" matches any run of characters, "/"        *)
(* included, "?" matches one character, anything else matches itself.      *)
(* The patterns of the model hold no "[" character class.                  *)
(***************************************************************************)
RECURSIVE Fnmatch(_, _)
Fnmatch(name, pat) ==
    IF pat = "" THEN name = ""
    ELSE IF Head(pat) = "*"
         THEN \/ Fnmatch(name, Tail(pat))
              \/ (name # "" /\ Fnmatch(Tail(name), pat))
    ELSE IF Head(pat) = "?"
         THEN name # "" /\ Fnmatch(Tail(name), Tail(pat))
    ELSE /\ name # ""
         /\ Head(name) = Head(pat)
         /\ Fnmatch(Tail(name), Tail(pat))

(***************************************************************************)
(* FileOperations.  A location is the normalised segment sequence of a     *)
(* directory entry; the file system maps the locations of the files that   *)
(* exist to their contents.                                                *)
(***************************************************************************)
\* FileOperations.repo_path: the resolved repository root, /repo
repo_path == Abs(<<"repo">>)

\* the protected patterns used when the caller supplies none
DefaultProtectedPatterns == <<".git/**", ".github/**", "config/**">>

\* FileOperations.__init__: protected_patterns or the defaults
InitProtectedPatterns(given) ==
    IF given = <<>> THEN DefaultProtectedPatterns ELSE given

\* FileOperations._resolve_path: absolute paths as they are, relative paths
\* joined to the root and resolved
ResolvePath(file_path) ==
    IF file_path.abs
    THEN file_path
    ELSE Abs(Normalize(repo_path.segs \o file_path.segs))

\* the relative path matches a pattern, bare or as a directory prefix
MatchesPattern(relative_str, pattern) ==
    \/ Fnmatch(relative_str, pattern)
    \/ Fnmatch(relative_str \o "/**", pattern)

\* some pattern matches the relative path
MatchesAny(relative_str, patterns) ==
    \E i \in 1..Len(patterns) : MatchesPattern(relative_str, patterns[i])

\* FileOperations.is_protected; Path.relative_to compares the segments as
\* they are written
IsProtected(file_path, patterns) ==
    IF file_path.abs /\ ~IsPrefix(repo_path.segs, file_path.segs)
    THEN TRUE
    ELSE LET relative ==
                 IF file_path.abs
                 THEN SubSeq(file_path.segs, Len(repo_path.segs) + 1,
                             Len(file_path.segs))
                 ELSE file_path.segs
         IN  MatchesAny(RelStr(relative), patterns)

\* the directory entry that open() reaches for a resolved path
Location(path) == Normalize(path.segs)

\* the location lies below the repository root
InRepo(loc) ==
    /\ IsPrefix(repo_path.segs, loc)
    /\ Len(loc) > Len(repo_path.segs)

\* the path of a location inside the repository, relative to the root
RepoRelative(loc) ==
    JoinSegs(SubSeq(loc, Len(repo_path.segs) + 1, Len(loc)))

\* Path.parent.mkdir(parents=True, exist_ok=True): every directory on the way
\* to the parent of path exists afterwards
MkdirParents(path) ==
    LET parent == SubSeq(path.segs, 1, Len(path.segs) - 1)
    IN  {Normalize(SubSeq(parent, 1, k)) : k \in 0..Len(parent)}

\* open(path, "r") reads with universal newlines: "\r\n" and "\r" become "\n"
RECURSIVE TranslateNewlines(_)
TranslateNewlines(s) ==
    IF s = "" THEN ""
    ELSE IF Head(s) = "\r"
         THEN IF Len(s) >= 2 /\ SubSeq(s, 2, 2) = "\n"
              THEN "\n" \o TranslateNewlines(SubSeq(s, 3, Len(s)))
              ELSE "\n" \o TranslateNewlines(Tail(s))
         ELSE Head(s) \o TranslateNewlines(Tail(s))

\* FileOperations.read_file on the file system fs
FileOpsReadFile(fs, file_path) ==
    LET loc == Location(ResolvePath(file_path))
    IN  IF loc \in DOMAIN fs
        THEN [outcome |-> "ok", text |-> TranslateNewlines(fs[loc])]
        ELSE [outcome |-> "FileNotFoundError", text |-> ""]

\* FileOperations.write_file on the file system fs with directories ds
FileOpsWriteFile(fs, ds, patterns, file_path, content, force) ==
    LET path == ResolvePath(file_path)
    IN  IF ~force /\ IsProtected(path, patterns)
        THEN [outcome |-> "PermissionError", files |-> fs, dirs |-> ds]
        ELSE [outcome |-> "ok",
              files   |-> (Location(path) :> content) @@ fs,
              dirs    |-> ds \cup MkdirParents(path)]

(***************************************************************************)
(* GitOperations.  The working tree is the part of the file system below   *)
(* the repository root; the index and the HEAD tree map tracked locations  *)
(* to contents; a commit records its message and the locations whose       *)
(* content differs from the parent's tree.                                 *)
(***************************************************************************)
\* the working tree of the repository
WorkTree(fs) == [l \in {k \in DOMAIN fs : InRepo(k)} |-> fs[l]]

\* repo.index.diff(None): tracked files whose working copy differs from the index
Modified(wt, idx) == {l \in DOMAIN idx : l \notin DOMAIN wt \/ wt[l] # idx[l]}

\* repo.index.diff("HEAD"): locations whose index entry differs from HEAD
StagedPaths(idx, hd) ==
    {l \in DOMAIN idx \cup DOMAIN hd :
        ~(l \in DOMAIN idx /\ l \in DOMAIN hd /\ idx[l] = hd[l])}

\* repo.untracked_files
Untracked(wt, idx) == DOMAIN wt \ DOMAIN idx

\* repo.is_dirty(): the index or a tracked file differs; untracked files do not count
IsDirty(wt, idx, hd) == StagedPaths(idx, hd) # {} \/ Modified(wt, idx) # {}

\* GitOperations.get_diff(): the diff of the unstaged changes, as the set of
\* the files it covers; the text is empty exactly when the set is
GetDiff(wt, idx) == Modified(wt, idx)

\* GitOperations.is_staged
IsStaged(idx, hd) == StagedPaths(idx, hd) # {}

\* the files argument when the caller gives none
NoFiles == [given |-> FALSE, paths |-> <<>>]

\* the files argument holding these paths
TheFiles(paths) == [given |-> TRUE, paths |-> paths]

\* GitOperations.add_files: repo.index.add(files) stages the named files and
\* raises for one that is missing or outside the repository; without files,
\* git add -A stages the whole working tree
AddFiles(wt, idx, paths) ==
    LET locs == {Location(ResolvePath(paths[i])) : i \in 1..Len(paths)}
    IN  IF paths = <<>>
        THEN [outcome |-> "ok", index |-> wt]
        ELSE IF \E l \in locs : l \notin DOMAIN wt
        THEN [outcome |-> "GitError", index |-> idx]
        ELSE [outcome |-> "ok",
              index   |-> [l \in DOMAIN idx \cup locs |->
                              IF l \in locs THEN wt[l] ELSE idx[l]]]

\* a commit that never finds the tree clean
NothingToCommitNever(wt, idx, hd) == FALSE

\* the check of GitOperations.commit that there is something to commit
NothingToCommit(wt, idx, hd) == ~IsDirty(wt, idx, hd) /\ Untracked(wt, idx) = {}

\* GitOperations.commit
GitCommit(wt, idx, hd, history, message, files) ==
    LET added == IF files.given /\ files.paths # <<>>
                 THEN AddFiles(wt, idx, files.paths)
                 ELSE [outcome |-> "ok", index |-> idx]
        idx1  == added.index
        idx2  == IF ~files.given /\ ~IsStaged(idx1, hd)
                 THEN AddFiles(wt, idx1, <<>>).index
                 ELSE idx1
    IN  IF added.outcome # "ok"
        THEN [outcome |-> added.outcome, index |-> idx, head |-> hd,
              commits |-> history]
        ELSE IF NothingToCommit(wt, idx1, hd)
        THEN [outcome |-> "ValueError", index |-> idx1, head |-> hd,
              commits |-> history]
        ELSE [outcome |-> "ok", index |-> idx2, head |-> idx2,
              commits |-> Append(history,
                                 [message |-> message,
                                  changes |-> StagedPaths(idx2, hd)])]

\* GitOperations.create_branch: repo.create_head raises for a name in use
GitCreateBranch(heads, active, branch_name, checkout) ==
    IF branch_name \in heads
    THEN [outcome |-> "GitError", branches |-> heads, active |-> active]
    ELSE [outcome  |-> "ok",
          branches |-> heads \cup {branch_name},
          active   |-> IF checkout THEN branch_name ELSE active]


(***************************************************************************)
(* Config, as far as the agent reads it: an entry is set or not, and       *)
(* Config.get returns the default for an entry that is not set.            *)
(***************************************************************************)
Unset == [set |-> FALSE]

Entry(v) == [set |-> TRUE, val |-> v]

\* Config.get(key, default) on the entry of key
ConfigGet(entry, default) == IF entry.set THEN entry.val ELSE default

\* the timeout None
NoTimeout == [given |-> FALSE, secs |-> 0]

\* a timeout of n seconds
Seconds(n) == [given |-> TRUE, secs |-> n]

\* bool(self.config.get("repository.auto_commit"))
AutoCommitOn(cfg) == ConfigGet(cfg.auto_commit, FALSE)

(***************************************************************************)
(* The LLM capability.  A reply is what the environment answers to one     *)
(* use of the client: the construction of the client fails (missing        *)
(* credentials, unsupported provider), the call fails, or text comes back. *)
(* An operation that uses the client has one result for each reply.        *)
(***************************************************************************)
NoClient == [kind |-> "no_client", text |-> ""]

CallFails == [kind |-> "error", text |-> ""]

Text(t) == [kind |-> "text", text |-> t]

\* the replies to generate_code_refactor
RefactorReplies ==
    {NoClient, CallFails, Text("a\r\nb\n"), Text("~~~\na\r\nb\n~~~")}

\* the replies to generate_commit_message
MessageReplies == {NoClient, CallFails, Text(" ~fix~\n")}

\* RepoAgent._llm before a client is built; a client is the record of what it
\* was built with, and serial tells the clients of one agent apart
NoLLMClient ==
    [serial |-> 0, provider |-> "", model |-> "", temperature |-> "",
     max_tokens |-> ""]

\* the capital letters of the provider names, and their small letters
Capitals == <<"A", "I", "O">>

Smalls == <<"a", "i", "o">>

RECURSIVE Lower(_)
\* str.lower()
Lower(s) ==
    IF s = "" THEN ""
    ELSE LET c == Head(s)
             k == {i \in 1..Len(Capitals) : Capitals[i] = c}
         IN  (IF k = {} THEN c ELSE Smalls[CHOOSE i \in k : TRUE])
                 \o Lower(Tail(s))

\* an _init_llm that passes the constructor's defaults whatever cfg holds
InitLLMArgsDefaults(cfg) ==
    [provider    |-> "openai",
     model       |-> "",
     temperature |-> "0.7",
     max_tokens  |-> "2000"]

\* RepoAgent._init_llm: the arguments read from the configuration; numbers
\* are written as their text, and "" is the model None
InitLLMArgs(cfg) ==
    [provider    |-> ConfigGet(cfg.llm_provider, "openai"),
     model       |-> ConfigGet(cfg.llm_model, ""),
     temperature |-> ConfigGet(cfg.llm_temperature, "0.7"),
     max_tokens  |-> ConfigGet(cfg.llm_max_tokens, "2000")]

\* the providers LLMClient.__init__ knows
SupportedProviders == {"openai", "anthropic"}

\* model or the default of the provider
DefaultModel(provider_name) ==
    IF provider_name = "openai" THEN "gpt-4" ELSE "claude-3-sonnet-20240229"

\* LLMClient.__init__ with a supported provider
LLMClient(args, serial) ==
    [serial      |-> serial,
     provider    |-> Lower(args.provider),
     model       |-> IF args.model = "" THEN DefaultModel(Lower(args.provider))
                     ELSE args.model,
     temperature |-> args.temperature,
     max_tokens  |-> args.max_tokens]

\* an llm property that builds a client on every access
LLMOutcomeUncached(client, cfg, reply) ==
    LET args  == InitLLMArgs(cfg)
        fails == \/ reply.kind = "no_client"
                 \/ Lower(args.provider) \notin SupportedProviders
        used  == LLMClient(args, client.serial + 1)
    IN  IF fails
        THEN [outcome |-> "LLMError", llm |-> client, built |-> 0,
              uses |-> 1, calls |-> 0, text |-> ""]
        ELSE [outcome |-> IF reply.kind = "text" THEN "ok" ELSE "LLMError",
              llm |-> used, built |-> 1, uses |-> 1, calls |-> 1,
              text |-> IF reply.kind = "text" THEN reply.text ELSE ""]

\* RepoAgent.llm followed by one generate call that the environment answers
\* with reply: the client is built from the configuration if there is none
LLMOutcome(client, cfg, reply) ==
    LET args  == InitLLMArgs(cfg)
        fresh == client.serial = 0
        fails == /\ fresh
                 /\ \/ reply.kind = "no_client"
                    \/ Lower(args.provider) \notin SupportedProviders
        used  == IF fresh THEN LLMClient(args, 1) ELSE client
    IN  IF fails
        THEN [outcome |-> "LLMError", llm |-> client, built |-> 0,
              uses |-> 1, calls |-> 0, text |-> ""]
        ELSE [outcome |-> IF reply.kind = "text" THEN "ok" ELSE "LLMError",
              llm |-> used, built |-> IF fresh THEN 1 ELSE 0, uses |-> 1,
              calls |-> 1,
              text |-> IF reply.kind = "text" THEN reply.text ELSE ""]

\* the outcomes of one use of the client
UseLLM(client, cfg, replies) ==
    {LLMOutcome(client, cfg, reply) : reply \in replies}

\* the client is not used
NoLLM(client) ==
    [outcome |-> "ok", llm |-> client, built |-> 0, uses |-> 0, calls |-> 0,
     text |-> ""]

(***************************************************************************)
(* Runner.  What the process of a command does is the environment's: it    *)
(* exits after some seconds with a return code and its output, it never    *)
(* exits on its own, or it cannot be started.  run_command gives back the  *)
(* result dictionary, or never returns.                                    *)
(***************************************************************************)
\* a process that exits after secs seconds with the return code rc
Exits(rc, secs) ==
    [kind |-> "exits", rc |-> rc, secs |-> secs, out |-> "out",
     err |-> IF rc = 0 THEN "" ELSE "err", msg |-> ""]

\* a process that does not exit on its own
Forever ==
    [kind |-> "forever", rc |-> 0, secs |-> 0, out |-> "", err |-> "",
     msg |-> ""]

\* a process that cannot be started: subprocess.run raises an OSError
SpawnFails ==
    [kind |-> "raises", rc |-> 0, secs |-> 0, out |-> "", err |-> "",
     msg |-> "[Errno 2] No such file or directory"]

\* subprocess.run(..., timeout=timeout) on a process: the ways it can end.
\* A process that exits at the very moment the timeout expires may end
\* either way.
SubprocessRun(process, timeout) ==
    IF process.kind = "raises" THEN {"exception"}
    ELSE IF ~timeout.given
    THEN {IF process.kind = "exits" THEN "completed" ELSE "blocked"}
    ELSE IF process.kind = "forever" THEN {"timeout"}
    ELSE (IF process.secs <= timeout.secs THEN {"completed"} ELSE {})
         \cup (IF process.secs >= timeout.secs THEN {"timeout"} ELSE {})

\* timeout or self.timeout: None and 0 give way to the default
EffectiveTimeout(timeout, default) ==
    IF timeout.given /\ timeout.secs # 0 THEN timeout ELSE default

\* str(timeout) in the diagnostic
TimeoutStr(timeout) ==
    IF timeout.given THEN ToString(timeout.secs) ELSE "None"

\* a dictionary whose success is true whatever the return code
CompletedResultLax(process) ==
    [kind |-> "dict", cause |-> "completed", success |-> TRUE,
     returncode |-> process.rc, stdout |-> process.out,
     stderr |-> process.err, command |-> ""]

\* the dictionary returned when subprocess.run returned
CompletedResult(process) ==
    [kind |-> "dict", cause |-> "completed", success |-> process.rc = 0,
     returncode |-> process.rc, stdout |-> process.out,
     stderr |-> process.err, command |-> ""]

\* the dictionary returned for a failure with the diagnostic stderr
FailedResult(cause, stderr) ==
    [kind |-> "dict", cause |-> cause, success |-> FALSE, returncode |-> -1,
     stdout |-> "", stderr |-> stderr, command |-> ""]

\* the call is inside subprocess.run for good
Blocked ==
    [kind |-> "blocked", cause |-> "blocked", success |-> FALSE,
     returncode |-> 0, stdout |-> "", stderr |-> "", command |-> ""]

\* the result of run_command when subprocess.run ended in the way end
ResultOf(process, timeout, end) ==
    IF end = "completed" THEN CompletedResult(process)
    ELSE IF end = "timeout"
    THEN FailedResult("timeout", "Command timed out after "
                                     \o TimeoutStr(timeout) \o " seconds")
    ELSE IF end = "exception" THEN FailedResult("exception", process.msg)
    ELSE Blocked

\* Runner.run_command on a runner with the default timeout self_timeout
RunCommand(self_timeout, process, timeout) ==
    LET t == EffectiveTimeout(timeout, self_timeout)
    IN  {ResultOf(process, t, end) : end \in SubprocessRun(process, t)}

\* (self.repo_path / name).exists()
Exists(fs, name) == repo_path.segs \o <<name>> \in DOMAIN fs

\* no command argument
NoCommand == [given |-> FALSE, text |-> ""]

\* the command argument
Command(c) == [given |-> TRUE, text |-> c]

\* a detection that looks for the Makefile before package.json
DetectTestCommandMakeFirst(fs) ==
    IF Exists(fs, "pytest.ini") \/ Exists(fs, "setup.py") THEN "pytest"
    ELSE IF Exists(fs, "Makefile") THEN "make test"
    ELSE IF Exists(fs, "package.json") THEN "npm test"
    ELSE IF Exists(fs, "tox.ini") THEN "tox"
    ELSE "pytest"

\* Runner._detect_test_command
DetectTestCommand(fs) ==
    IF Exists(fs, "pytest.ini") \/ Exists(fs, "setup.py") THEN "pytest"
    ELSE IF Exists(fs, "package.json") THEN "npm test"
    ELSE IF Exists(fs, "Makefile") THEN "make test"
    ELSE IF Exists(fs, "tox.ini") THEN "tox"
    ELSE "pytest"

\* Runner._detect_linter_command
DetectLinterCommand(fs) ==
    IF Exists(fs, ".flake8") THEN "flake8"
    ELSE IF Exists(fs, "pylint.rc") THEN "pylint"
    ELSE IF Exists(fs, ".eslintrc.js") \/ Exists(fs, ".eslintrc.json")
    THEN "eslint ."
    ELSE "flake8"

\* Runner._detect_formatter_command
DetectFormatterCommand(fs, check_only) ==
    IF Exists(fs, "pyproject.toml")
    THEN IF check_only THEN "black --check ." ELSE "black ."
    ELSE IF Exists(fs, ".prettierrc")
    THEN IF check_only THEN "prettier --check ." ELSE "prettier --write ."
    ELSE IF check_only THEN "black --check ." ELSE "black ."

\* the result of run_command with the key that names the command
WithCommand(results, command) ==
    {IF r.kind = "dict" THEN [r EXCEPT !.command = command] ELSE r :
        r \in results}

\* Runner.run_tests
RunTests(self_timeout, fs, process, test_command, test_path) ==
    LET detected == IF test_command.given THEN test_command.text
                    ELSE DetectTestCommand(fs)
        command  == IF test_path # "" THEN detected \o " " \o test_path
                    ELSE detected
    IN  WithCommand(RunCommand(self_timeout, process, NoTimeout), command)

\* Runner.run_linter
RunLinter(self_timeout, fs, process, linter_command) ==
    LET command == IF linter_command.given THEN linter_command.text
                   ELSE DetectLinterCommand(fs)
    IN  WithCommand(RunCommand(self_timeout, process, NoTimeout), command)

\* Runner.run_formatter
RunFormatter(self_timeout, fs, process, formatter_command, check_only) ==
    LET command == IF formatter_command.given THEN formatter_command.text
                   ELSE DetectFormatterCommand(fs, check_only)
    IN  WithCommand(RunCommand(self_timeout, process, NoTimeout), command)

\* Runner.run_script on a script given by its absolute path; the command it
\* builds decides which process the environment runs
RunScript(self_timeout, fs, process, script_path) ==
    IF Location(script_path) \notin DOMAIN fs
    THEN {FailedResult("missing", "Script not found: /"
                                      \o JoinSegs(script_path.segs))}
    ELSE RunCommand(self_timeout, process, NoTimeout)

(***************************************************************************)
(* RepoAgent.  An operation maps the record s of the agent's and the       *)
(* repository's state to the set of records it may leave, one for each     *)
(* answer of the environment.  A record also holds what the call gave      *)
(* back: outcome ("ok" or the exception raised), text, sha (the number of  *)
(* the commit made, 0 for None), the number of LLM calls made, the        *)
(* exception named by the auto-commit warning ("" when none was logged),   *)
(* the message handed to GitOperations.commit ("" when none was), the      *)
(* numbers of accesses to the llm property and of clients built, the text  *)
(* generate_code_refactor returned, and the result of a call that returns  *)
(* a dictionary.                                                           *)
(***************************************************************************)
\* the message used when the diff is empty
FallbackMessage == "[Repoman] Automated changes"

\* the default of repository.commit_message_prefix
DefaultPrefix == "[Repoman]"

\* the default of repository.branch_prefix
DefaultBranchPrefix == "repoman/"

\* a clean-up that trims the whitespace only
CleanMessageWhitespace(message) == Strip(message, Whitespace)

\* message.strip().strip("`").strip('"').strip("'")
CleanMessage(message) ==
    Strip(Strip(Strip(Strip(message, Whitespace), {Backtick}), {"\""}), {"'"})

\* a prefix step that prepends the prefix to every message
PrefixStepAlways(message, prefix) == prefix \o " " \o message

\* the prefix step of commit_changes
PrefixStep(message, prefix) ==
    IF ~StartsWith(message, prefix) THEN prefix \o " " \o message ELSE message

\* no message argument
NoMessage == [given |-> FALSE, text |-> ""]

\* the message argument
Message(m) == [given |-> TRUE, text |-> m]

\* a commit_changes that reads the llm property whenever the diff is not
\* empty, message argument or not
NeedsGeneratedMessageAnyway(s, message) ==
    GetDiff(WorkTree(s.files), s.index) # {}

\* commit_changes needs a generated message: none is given and the diff is
\* not empty
NeedsGeneratedMessage(s, message) ==
    ~message.given /\ GetDiff(WorkTree(s.files), s.index) # {}

\* no diff was handed to the LLM
NoDiff == [sent |-> FALSE, paths |-> {}]

\* the diff handed to generate_commit_message, as the files it covers
TheDiff(paths) == [sent |-> TRUE, paths |-> paths]

\* RepoAgent.commit_changes past the dry-run gate, with gen the outcome of
\* the use of the client
CommitWith(s, message, files, gen) ==
    LET wt    == WorkTree(s.files)
        msg   == IF message.given THEN message.text
                 ELSE IF GetDiff(wt, s.index) # {} THEN CleanMessage(gen.text)
                 ELSE FallbackMessage
        final == PrefixStep(msg, ConfigGet(s.config.commit_message_prefix,
                                           DefaultPrefix))
        c     == GitCommit(wt, s.index, s.head, s.commits, final, files)
    IN  IF gen.outcome # "ok"
        THEN [s EXCEPT !.outcome = gen.outcome, !.llm = gen.llm,
                       !.llm_calls = @ + gen.calls,
                       !.llm_uses = @ + gen.uses, !.clients = @ + gen.built]
        ELSE [s EXCEPT !.outcome = c.outcome, !.llm = gen.llm,
                       !.llm_calls = @ + gen.calls,
                       !.llm_uses = @ + gen.uses, !.clients = @ + gen.built,
                       !.message = final, !.llm_message = gen.text,
                       !.llm_diff = IF gen.calls > 0
                                    THEN TheDiff(GetDiff(wt, s.index)) ELSE @,
                       !.index = c.index, !.head = c.head,
                       !.commits = c.commits,
                       !.sha = IF c.outcome = "ok" THEN Len(c.commits) ELSE 0]

\* RepoAgent.commit_changes past the dry-run gate
CommitChangesLive(s, message, files) ==
    {CommitWith(s, message, files, gen) :
        gen \in IF NeedsGeneratedMessage(s, message)
                THEN UseLLM(s.llm, s.config, MessageReplies)
                ELSE {NoLLM(s.llm)}}

\* commit_changes without its dry-run gate
CommitChangesUngated(s, message, files) == CommitChangesLive(s, message, files)

\* RepoAgent.commit_changes
CommitChanges(s, message, files) ==
    IF s.dry_run THEN {s} ELSE CommitChangesLive(s, message, files)

\* the try block of RepoAgent._auto_commit
AutoCommitTry(s, paths) ==
    LET wt    == WorkTree(s.files)
        added == AddFiles(wt, s.index, paths)
    IN  IF GetDiff(wt, s.index) = {} THEN {s}
        ELSE IF added.outcome # "ok" THEN {[s EXCEPT !.outcome = added.outcome]}
        ELSE CommitChanges([s EXCEPT !.index = added.index], NoMessage,
                           TheFiles(paths))

\* the except clause of RepoAgent._auto_commit: the failure becomes a warning
Suppress(r) ==
    IF r.outcome # "ok"
    THEN [r EXCEPT !.outcome = "ok", !.warning = r.outcome, !.sha = 0]
    ELSE r

\* _auto_commit without its except clause: a failure of the try block
\* reaches the caller
AutoCommitUncaught(s, paths) ==
    IF ~AutoCommitOn(s.config) THEN {s} ELSE AutoCommitTry(s, paths)

\* RepoAgent._auto_commit
AutoCommit(s, paths) ==
    IF ~AutoCommitOn(s.config) THEN {s}
    ELSE {Suppress(r) : r \in AutoCommitTry(s, paths)}

\* an auto-commit condition that does not look at the commit argument
WantsAutoCommitAnyway(s, commit) == AutoCommitOn(s.config)

\* the condition of RepoAgent.write_file under which it auto-commits
WantsAutoCommit(s, commit) == commit /\ AutoCommitOn(s.config)

\* RepoAgent.write_file past the dry-run gate; the call returns None
WriteFileLive(s, file_path, content, commit) ==
    LET w == FileOpsWriteFile(s.files, s.dirs, s.protected_patterns,
                              file_path, content, FALSE)
        written == [s EXCEPT !.files = w.files, !.dirs = w.dirs]
    IN  IF w.outcome # "ok" THEN {[s EXCEPT !.outcome = w.outcome]}
        ELSE IF WantsAutoCommit(s, commit)
        THEN {[r EXCEPT !.sha = 0] : r \in AutoCommit(written, <<file_path>>)}
        ELSE {written}

\* RepoAgent.write_file
WriteFile(s, file_path, content, commit) ==
    IF s.dry_run THEN {s} ELSE WriteFileLive(s, file_path, content, commit)

RECURSIVE SplitLinesFrom(_, _, _)
\* str.split("\n"), with cur the line read so far
SplitLinesFrom(s, cur, acc) ==
    IF s = "" THEN Append(acc, cur)
    ELSE IF Head(s) = "\n" THEN SplitLinesFrom(Tail(s), "", Append(acc, cur))
    ELSE SplitLinesFrom(Tail(s), cur \o Head(s), acc)

SplitLines(s) == SplitLinesFrom(s, "", <<>>)

RECURSIVE JoinLines(_)
\* "\n".join(lines)
JoinLines(lines) ==
    IF lines = <<>> THEN ""
    ELSE IF Len(lines) = 1 THEN lines[1]
    ELSE lines[1] \o "\n" \o JoinLines(Tail(lines))

\* the markdown fence marker
Fence == Backtick \o Backtick \o Backtick

\* a cleaning that removes a leading fence only
CleanCodeOutputLeading(code) ==
    LET lines0 == SplitLines(Strip(code, Whitespace))
    IN  JoinLines(IF StartsWith(lines0[1], Fence) THEN Tail(lines0) ELSE lines0)

\* RepoAgent._clean_code_output
CleanCodeOutput(code) ==
    LET lines0 == SplitLines(Strip(code, Whitespace))
        lines1 == IF lines0 # <<>> /\ StartsWith(lines0[1], Fence)
                  THEN Tail(lines0) ELSE lines0
        lines2 == IF lines1 # <<>> /\ StartsWith(Last(lines1), Fence)
                  THEN SubSeq(lines1, 1, Len(lines1) - 1) ELSE lines1
    IN  JoinLines(lines2)

\* a refactor_file that writes the text of the LLM as it came
RefactorWithRaw(s, file_path, commit, gen) ==
    LET cleaned == CleanCodeOutput(gen.text)
        called  == [s EXCEPT !.llm = gen.llm, !.llm_calls = @ + gen.calls,
                             !.llm_uses = @ + gen.uses,
                             !.clients = @ + gen.built,
                             !.llm_text = gen.text]
    IN  IF gen.outcome # "ok" THEN {[called EXCEPT !.outcome = gen.outcome]}
        ELSE IF s.dry_run THEN {[called EXCEPT !.text = cleaned]}
        ELSE {IF w.outcome # "ok" THEN w ELSE [w EXCEPT !.text = cleaned] :
                 w \in WriteFile(called, file_path, gen.text, commit)}

\* RepoAgent.refactor_file after the read, with gen the outcome of
\* generate_code_refactor
RefactorWith(s, file_path, commit, gen) ==
    LET cleaned == CleanCodeOutput(gen.text)
        called  == [s EXCEPT !.llm = gen.llm, !.llm_calls = @ + gen.calls,
                             !.llm_uses = @ + gen.uses,
                             !.clients = @ + gen.built,
                             !.llm_text = gen.text]
    IN  IF gen.outcome # "ok" THEN {[called EXCEPT !.outcome = gen.outcome]}
        ELSE IF s.dry_run THEN {[called EXCEPT !.text = cleaned]}
        ELSE {IF w.outcome # "ok" THEN w ELSE [w EXCEPT !.text = cleaned] :
                 w \in WriteFile(called, file_path, cleaned, commit)}

\* RepoAgent.refactor_file
RefactorFile(s, file_path, commit) ==
    LET original == FileOpsReadFile(s.files, file_path)
    IN  IF original.outcome # "ok"
        THEN {[s EXCEPT !.outcome = original.outcome]}
        ELSE UNION {RefactorWith(s, file_path, commit, gen) :
                       gen \in UseLLM(s.llm, s.config, RefactorReplies)}

\* RepoAgent.read_file
ReadFile(s, file_path) ==
    LET r == FileOpsReadFile(s.files, file_path)
    IN  [s EXCEPT !.outcome = r.outcome, !.text = r.text]

\* the prefix step of RepoAgent.create_branch
BranchName(branch_name, prefix) ==
    IF ~StartsWith(branch_name, prefix) THEN prefix \o branch_name
    ELSE branch_name

\* RepoAgent.create_branch
CreateBranch(s, branch_name, checkout) ==
    LET name == BranchName(branch_name,
                           ConfigGet(s.config.branch_prefix, DefaultBranchPrefix))
        b    == GitCreateBranch(s.branches, s.active_branch, name, checkout)
    IN  IF s.dry_run THEN s
        ELSE [s EXCEPT !.outcome = b.outcome, !.branches = b.branches,
                       !.active_branch = b.active]

(***************************************************************************)
(* The read-only operations of the agent: analyze_codebase lists the files *)
(* that match its patterns, analyze_file and execute_task ask the LLM.     *)
(***************************************************************************)
\* the characters of the file names of the model, in the order of their
\* code points
CharOrder == "./_abcdefghijklmnopqrstuvwxyz"

\* the place of a character in the order
Rank(c) == CHOOSE i \in 1..Len(CharOrder) : SubSeq(CharOrder, i, i) = c

RECURSIVE StrLess(_, _)
\* a < b on str
StrLess(a, b) ==
    IF b = "" THEN FALSE
    ELSE IF a = "" THEN TRUE
    ELSE IF Head(a) = Head(b) THEN StrLess(Tail(a), Tail(b))
    ELSE Rank(Head(a)) < Rank(Head(b))

RECURSIVE Sorted(_)
\* sorted() of a set of strings
Sorted(strs) ==
    IF strs = {} THEN <<>>
    ELSE LET least == CHOOSE x \in strs :
                          \A y \in strs \ {x} : StrLess(x, y)
         IN  <<least>> \o Sorted(strs \ {least})

\* Path.rglob(pattern) from the root, for a pattern without "/": the files
\* at any depth whose name matches
RGlob(fs, pattern) ==
    {loc \in DOMAIN fs : InRepo(loc) /\ Fnmatch(Last(loc), pattern)}

\* FileOperations.find_files(pattern): the matches relative to the root,
\* sorted
FindFiles(fs, pattern) ==
    Sorted({RepoRelative(loc) : loc \in RGlob(fs, pattern)})

\* no patterns argument
NoPatterns == [given |-> FALSE, list |-> <<>>]

\* the patterns argument
Patterns(list) == [given |-> TRUE, list |-> list]

\* the patterns analyze_codebase uses when it is given none
DefaultPatterns == <<"*.py", "*.js", "*.go", "*.java", "*.ts">>

\* the number of entries analyze_codebase returns at most
DisplayLimit == 100

RECURSIVE FindAll(_, _)
\* files.extend(find_files(pattern)) for each pattern in turn
FindAll(fs, list) ==
    IF list = <<>> THEN <<>>
    ELSE FindFiles(fs, Head(list)) \o FindAll(fs, Tail(list))

\* GitOperations.get_status
GetStatus(s) ==
    [branch    |-> s.active_branch,
     is_dirty  |-> IsDirty(WorkTree(s.files), s.index, s.head),
     untracked |-> Untracked(WorkTree(s.files), s.index),
     modified  |-> Modified(WorkTree(s.files), s.index),
     staged    |-> StagedPaths(s.index, s.head)]

\* RepoAgent.get_status
RepoAgentGetStatus(s) ==
    [s EXCEPT !.result =
        [kind       |-> "status",
         repo_path  |-> repo_path,
         dry_run    |-> s.dry_run,
         git_status |-> GetStatus(s),
         config     |-> [llm_provider |-> s.config.llm_provider,
                         llm_model    |-> s.config.llm_model,
                         auto_commit  |-> s.config.auto_commit]]]

\* seq[:n]
Take(seq, n) == SubSeq(seq, 1, IF Len(seq) < n THEN Len(seq) ELSE n)

\* an analysis that counts the files it lists
AnalysisOfListed(s, found) ==
    [kind |-> "analysis", total_files |-> Len(Take(found, DisplayLimit)),
     files |-> Take(found, DisplayLimit), git_status |-> GetStatus(s)]

\* the dictionary analyze_codebase builds from the files found
Analysis(s, found) ==
    [kind |-> "analysis", total_files |-> Len(found),
     files |-> Take(found, DisplayLimit), git_status |-> GetStatus(s)]

\* RepoAgent.analyze_codebase
AnalyzeCodebase(s, patterns) ==
    LET list == IF patterns.given THEN patterns.list ELSE DefaultPatterns
    IN  [s EXCEPT !.result = Analysis(s, FindAll(s.files, list))]

\* the replies to generate_code_analysis and to the plan prompt
AdviceReplies == {NoClient, CallFails, Text("1. do it")}

\* RepoAgent.analyze_file
AnalyzeFile(s, file_path) ==
    LET content == FileOpsReadFile(s.files, file_path)
    IN  IF content.outcome # "ok"
        THEN {[s EXCEPT !.outcome = content.outcome]}
        ELSE {[s EXCEPT !.outcome = gen.outcome, !.text = gen.text,
                        !.llm = gen.llm, !.llm_calls = @ + gen.calls,
                        !.llm_uses = @ + gen.uses,
                        !.clients = @ + gen.built] :
                 gen \in UseLLM(s.llm, s.config, AdviceReplies)}

\* the replies to the plan prompt
PlanReplies ==
    {NoClient, CallFails, Text("1. do it"),
     Text("1. write a.py\n2. git commit -am done")}

\* RepoAgent.execute_task, with gen the outcome of the use of the client
ExecuteTaskWith(s, task_description, gen) ==
    LET analysis == AnalyzeCodebase(s, NoPatterns).result
    IN  [s EXCEPT !.outcome = gen.outcome,
                  !.llm = gen.llm, !.llm_calls = @ + gen.calls,
                  !.llm_uses = @ + gen.uses, !.clients = @ + gen.built,
                  !.llm_text = gen.text,
                  !.result = IF gen.outcome = "ok"
                             THEN [kind |-> "task",
                                   task |-> task_description,
                                   plan |-> gen.text,
                                   analysis |-> analysis,
                                   status |-> "planned"]
                             ELSE @]

\* an execute_task that carries out the first step of a plan that says to
\* write a file
ExecuteTaskActing(s, task_description) ==
    {LET r == ExecuteTaskWith(s, task_description, gen)
     IN  IF gen.outcome = "ok" /\ Contains(gen.text, "write")
         THEN [r EXCEPT !.files = (<<"repo", "a.py">> :> "") @@ @]
         ELSE r :
        gen \in UseLLM(s.llm, s.config, PlanReplies)}

\* RepoAgent.execute_task
ExecuteTask(s, task_description) ==
    {ExecuteTaskWith(s, task_description, gen) :
        gen \in UseLLM(s.llm, s.config, PlanReplies)}

(***************************************************************************)
(* The configuration tree.  Config.config is a tree of Python values: a    *)
(* function from the paths of its nodes to the nodes, the root at <<>>.    *)
(* A node is a scalar with its type and its text, or a container whose     *)
(* children sit one segment below it; the children of a list or a tuple    *)
(* are named "0", "1", ...  A value handed to set or returned by get is a  *)
(* tree of its own.  The strings of the model hold no quote character and  *)
(* no line break, and the items of a list or tuple are scalars.            *)
(***************************************************************************)
Dict == [t |-> "dict", v |-> ""]

List == [t |-> "list", v |-> ""]

Tuple == [t |-> "tuple", v |-> ""]

None == [t |-> "none", v |-> ""]

Bool(b) == [t |-> "bool", v |-> IF b THEN "true" ELSE "false"]

Integer(text) == [t |-> "int", v |-> text]

Float(text) == [t |-> "float", v |-> text]

Str(text) == [t |-> "str", v |-> text]

\* the value that is one scalar or one empty container
Leaf(node) == <<>> :> node

\* the keys of the children of the node at a path
ChildKeys(tree, at) ==
    {p[Len(at) + 1] : p \in {q \in DOMAIN tree :
                                Len(q) = Len(at) + 1 /\ IsPrefix(at, q)}}

\* the value at a path
Sub(tree, at) ==
    [q \in {SubSeq(p, Len(at) + 1, Len(p)) :
                p \in {r \in DOMAIN tree : IsPrefix(at, r)}} |->
        tree[at \o q]]

\* the tree with the value put at a path, in place of what was there
Graft(tree, at, value) ==
    LET kept == {p \in DOMAIN tree : ~IsPrefix(at, p)}
        new  == {at \o q : q \in DOMAIN value}
    IN  [p \in kept \cup new |->
            IF p \in new THEN value[SubSeq(p, Len(at) + 1, Len(p))]
            ELSE tree[p]]

\* the list or tuple with these scalar items
Items(node, items) ==
    [p \in {<<>>} \cup {<<ToString(i - 1)>> : i \in 1..Len(items)} |->
        IF p = <<>> THEN node
        ELSE items[CHOOSE i \in 1..Len(items) : ToString(i - 1) = p[1]]]

\* bool(value) is False
Falsy(tree) ==
    \/ tree[<<>>] \in {None, Bool(FALSE), Integer("0"), Float("0.0"), Str("")}
    \/ tree[<<>>].t \in {"dict", "list", "tuple"} /\ DOMAIN tree = {<<>>}

RECURSIVE SplitFrom(_, _, _, _)
SplitFrom(s, sep, cur, acc) ==
    IF s = "" THEN Append(acc, cur)
    ELSE IF Head(s) = sep THEN SplitFrom(Tail(s), sep, "", Append(acc, cur))
    ELSE SplitFrom(Tail(s), sep, cur \o Head(s), acc)

\* key.split(".")
Split(key) == SplitFrom(key, ".", "", <<>>)

\* Config._default_config
DefaultConfigTree ==
    (<<>> :> Dict)
    @@ (<<"llm">> :> Dict)
    @@ (<<"llm", "provider">> :> Str("openai"))
    @@ (<<"llm", "model">> :> Str("gpt-4"))
    @@ (<<"llm", "temperature">> :> Float("0.7"))
    @@ (<<"llm", "max_tokens">> :> Integer("2000"))
    @@ (<<"repository">> :> Dict)
    @@ (<<"repository", "auto_commit">> :> Bool(TRUE))
    @@ (<<"repository", "commit_message_prefix">> :> Str("[Repoman]"))
    @@ (<<"repository", "branch_prefix">> :> Str("repoman/"))
    @@ (<<"repository", "auto_pr">> :> Bool(FALSE))
    @@ (<<"tasks">> :> Dict)
    @@ (<<"tasks", "max_iterations">> :> Integer("5"))
    @@ (<<"tasks", "timeout">> :> Integer("300"))
    @@ (<<"safety">> :> Dict)
    @@ (<<"safety", "dry_run">> :> Bool(FALSE))
    @@ (<<"safety", "require_approval">> :> Bool(FALSE))
    @@ (<<"safety", "protected_files">> :> List)
    @@ (<<"safety", "protected_files", "0">> :> Str(".git/**"))
    @@ (<<"safety", "protected_files", "1">> :> Str(".github/**"))
    @@ (<<"safety", "protected_files", "2">> :> Str("config/**"))

RECURSIVE GetFromUnchecked(_, _, _, _)
\* a get that calls value.get(k) on whatever value is
GetFromUnchecked(config, at, keys, default) ==
    IF keys = <<>> THEN [outcome |-> "ok", value |-> Sub(config, at)]
    ELSE IF config[at].t # "dict"
    THEN [outcome |-> "AttributeError", value |-> default]
    ELSE LET next == Append(at, Head(keys))
         IN  IF next \notin DOMAIN config \/ config[next] = None
             THEN [outcome |-> "ok", value |-> default]
             ELSE GetFromUnchecked(config, next, Tail(keys), default)

RECURSIVE GetFrom(_, _, _, _)
\* the loop of Config.get, with value the node at the path at
GetFrom(config, at, keys, default) ==
    IF keys = <<>> THEN [outcome |-> "ok", value |-> Sub(config, at)]
    ELSE IF config[at].t # "dict" THEN [outcome |-> "ok", value |-> default]
    ELSE LET next == Append(at, Head(keys))
         IN  IF next \notin DOMAIN config \/ config[next] = None
             THEN [outcome |-> "ok", value |-> default]
             ELSE GetFrom(config, next, Tail(keys), default)

\* Config.get(key, default)
Get(config, key, default) == GetFrom(config, <<>>, Split(key), default)

RECURSIVE SetFrom(_, _, _, _)
\* the loop of Config.set and its last assignment, with config the node at
\* the path at: "k not in config" and "config[k] = ..." raise TypeError on
\* every node that is not a mapping
SetFrom(config, at, keys, value) ==
    IF config[at].t # "dict"
    THEN [outcome |-> "TypeError", config |-> config]
    ELSE IF Len(keys) = 1
    THEN [outcome |-> "ok", config |-> Graft(config, Append(at, keys[1]), value)]
    ELSE LET next == Append(at, Head(keys))
             made == IF next \in DOMAIN config THEN config
                     ELSE Graft(config, next, Leaf(Dict))
         IN  SetFrom(made, next, Tail(keys), value)

\* Config.set(key, value)
Set(config, key, value) == SetFrom(config, <<>>, Split(key), value)

(***************************************************************************)
(* YAML, as far as the trees of the model need it: block mappings indented *)
(* by two, sequences of scalars under a key, plain and single-quoted       *)
(* scalars, "{}" and "[]".  A text is the sequence of its lines.           *)
(***************************************************************************)
DigitChars == {"0", "1", "2", "3", "4", "5", "6", "7", "8", "9"}

RECURSIVE AllIn(_, _)
AllIn(s, chars) == s = "" \/ (Head(s) \in chars /\ AllIn(Tail(s), chars))

Unsigned(s) == IF s # "" /\ Head(s) \in {"-", "+"} THEN Tail(s) ELSE s

RECURSIVE UpTo(_, _)
\* the characters of s before the first c
UpTo(s, c) ==
    IF s = "" \/ Head(s) = c THEN "" ELSE Head(s) \o UpTo(Tail(s), c)

IsInt(s) == Unsigned(s) # "" /\ AllIn(Unsigned(s), DigitChars)

IsFloat(s) ==
    LET whole == UpTo(Unsigned(s), ".")
    IN  /\ whole # "" /\ AllIn(whole, DigitChars)
        /\ Len(whole) < Len(Unsigned(s))
        /\ AllIn(SubSeq(Unsigned(s), Len(whole) + 2, Len(Unsigned(s))),
                 DigitChars)

NullWords == {"", "~", "null", "Null", "NULL"}

TrueWords == {"true", "True", "TRUE", "yes", "Yes", "YES", "on", "On", "ON"}

FalseWords == {"false", "False", "FALSE", "no", "No", "NO", "off", "Off", "OFF"}

\* the implicit resolver: the node a plain scalar stands for
Resolve(text) ==
    IF text \in NullWords THEN None
    ELSE IF text \in TrueWords THEN Bool(TRUE)
    ELSE IF text \in FalseWords THEN Bool(FALSE)
    ELSE IF IsInt(text) THEN Integer(text)
    ELSE IF IsFloat(text) THEN Float(text)
    ELSE Str(text)

\* the characters a plain scalar cannot start with
Indicators ==
    {"[", "]", "{", "}", "!", "*", "&", "#", "'", "|", ">", "%", "@", ",",
     "\"", " "}

\* the text of a string: plain when the plain text reads back as the string
RepresentStr(text) ==
    IF \/ Resolve(text) # Str(text)
       \/ Head(text) \in Indicators
       \/ SubSeq(text, Len(text), Len(text)) = " "
       \/ Contains(text, ": ") \/ Contains(text, " #")
    THEN "'" \o text \o "'"
    ELSE text

\* the text of a scalar
Represent(node) ==
    IF node.t = "none" THEN "null"
    ELSE IF node.t = "str" THEN RepresentStr(node.v)
    ELSE node.v

RECURSIVE Spaces(_)
Spaces(n) == IF n = 0 THEN "" ELSE " " \o Spaces(n - 1)

\* the items of the list or tuple at a path, one line each
DumpItems(tree, at, indent) ==
    [i \in 1..Cardinality(ChildKeys(tree, at)) |->
        Spaces(indent) \o "- " \o Represent(tree[Append(at, ToString(i - 1))])]

RECURSIVE DumpEntries(_, _, _, _)
\* the entries of the mapping at a path; a mapping keeps the order its keys
\* were inserted in, which no reader of the text depends on
DumpEntries(tree, at, keys, indent) ==
    IF keys = {} THEN <<>>
    ELSE LET k    == CHOOSE x \in keys : TRUE
             c    == Append(at, k)
             kids == ChildKeys(tree, c)
             lead == Spaces(indent) \o RepresentStr(k) \o ":"
         IN  (IF tree[c].t = "dict"
              THEN IF kids = {} THEN <<lead \o " {}">>
                   ELSE <<lead>> \o DumpEntries(tree, c, kids, indent + 2)
              ELSE IF tree[c].t = "list"
              THEN IF kids = {} THEN <<lead \o " []">>
                   ELSE <<lead>> \o DumpItems(tree, c, indent)
              ELSE IF tree[c].t = "tuple"
              THEN IF kids = {} THEN <<lead \o " !!python/tuple []">>
                   ELSE <<lead \o " !!python/tuple">>
                            \o DumpItems(tree, c, indent)
              ELSE <<lead \o " " \o Represent(tree[c])>>)
             \o DumpEntries(tree, at, keys \ {k}, indent)

\* yaml.dump(config, default_flow_style=False): a mapping in block style,
\* a tuple under the tag of the Python type, a scalar document closed by
\* the document end marker
YamlDump(tree) ==
    IF tree[<<>>].t = "dict"
    THEN IF DOMAIN tree = {<<>>} THEN <<"{}">>
         ELSE DumpEntries(tree, <<>>, ChildKeys(tree, <<>>), 0)
    ELSE <<Represent(tree[<<>>]), "...">>

\* the node a value text stands for; the safe loader has no constructor
\* for a tag of a Python type
ParseValue(text) ==
    IF StartsWith(text, "!!python/")
    THEN [outcome |-> "ConstructorError", node |-> None]
    ELSE IF text = "{}" THEN [outcome |-> "ok", node |-> Dict]
    ELSE IF text = "[]" THEN [outcome |-> "ok", node |-> List]
    ELSE IF StartsWith(text, "'")
    THEN [outcome |-> "ok", node |-> Str(SubSeq(text, 2, Len(text) - 1))]
    ELSE [outcome |-> "ok", node |-> Resolve(text)]

RECURSIVE PlainKey(_)
\* the characters before the first colon that a space or the end follows
PlainKey(s) ==
    IF s = "" THEN ""
    ELSE IF Head(s) = ":" /\ (Len(s) = 1 \/ SubSeq(s, 2, 2) = " ") THEN ""
    ELSE Head(s) \o PlainKey(Tail(s))

\* a line without its indentation as a mapping entry: its key and the text
\* of its value, or no entry
MappingEntry(body) ==
    IF StartsWith(body, "'")
    THEN LET key   == UpTo(Tail(body), "'")
             after == SubSeq(body, Len(key) + 3, Len(body))
         IN  [entry |-> StartsWith(after, ":"), key |-> key,
              text |-> LStrip(SubSeq(after, 2, Len(after)), {" "})]
    ELSE LET key == PlainKey(body)
         IN  [entry |-> Len(key) < Len(body), key |-> key,
              text |-> LStrip(SubSeq(body, Len(key) + 2, Len(body)), {" "})]

RECURSIVE LoadLines(_, _, _)
\* the lines of a block mapping, read in order: cur is the path of the
\* last key read, tree what has been built; a key without a value is None
\* until an entry or an item below it makes it a mapping or a list
LoadLines(lines, cur, tree) ==
    IF lines = <<>> THEN [outcome |-> "ok", config |-> tree]
    ELSE LET line   == Head(lines)
             body   == LStrip(line, {" "})
             depth  == (Len(line) - Len(body)) \div 2
         IN  IF StartsWith(body, "- ")
             THEN LET owner == SubSeq(cur, 1, depth + 1)
                      item  == ParseValue(SubSeq(body, 3, Len(body)))
                      n     == Cardinality(ChildKeys(tree, owner))
                  IN  IF item.outcome # "ok"
                      THEN [outcome |-> item.outcome, config |-> Leaf(None)]
                      ELSE LoadLines(Tail(lines), cur,
                               Graft([tree EXCEPT ![owner] = List],
                                     Append(owner, ToString(n)),
                                     Leaf(item.node)))
             ELSE LET e      == MappingEntry(body)
                      parent == SubSeq(cur, 1, depth)
                      path   == Append(parent, e.key)
                      val    == ParseValue(e.text)
                  IN  IF val.outcome # "ok"
                      THEN [outcome |-> val.outcome, config |-> Leaf(None)]
                      ELSE LoadLines(Tail(lines), path,
                               Graft([tree EXCEPT ![parent] = Dict],
                                     path, Leaf(val.node)))

\* yaml.safe_load(f): None for an empty document, a scalar for a document
\* of one line that is no entry, a mapping otherwise
SafeLoad(text) ==
    LET doc == SelectSeq(text, LAMBDA l : l # "...")
    IN  IF doc = <<>> THEN [outcome |-> "ok", config |-> Leaf(None)]
        ELSE IF Len(doc) = 1 /\ ~MappingEntry(doc[1]).entry
        THEN LET val == ParseValue(doc[1])
             IN  [outcome |-> val.outcome, config |-> Leaf(val.node)]
        ELSE LoadLines(doc, <<>>, Leaf(None))

\* the file at config_path: missing, a text found there, or the text that
\* save has written
NoFile == [exists |-> FALSE, text |-> <<>>, saved |-> FALSE]

File(text) == [exists |-> TRUE, text |-> text, saved |-> FALSE]

\* Config.load_config
LoadConfig(file) ==
    IF file.exists
    THEN LET loaded == SafeLoad(file.text)
         IN  IF loaded.outcome = "ok" /\ Falsy(loaded.config)
             THEN [outcome |-> "ok", config |-> Leaf(Dict)]
             ELSE loaded
    ELSE [outcome |-> "ok", config |-> DefaultConfigTree]

\* Config.save
Save(config) == [exists |-> TRUE, text |-> YamlDump(config), saved |-> TRUE]

(***************************************************************************)
(* The command line.  One invocation parses its arguments, constructs an   *)
(* agent on the repository in the current directory, dispatches on the     *)
(* command and exits.  The arguments are the tokens after the program      *)
(* name; an option that takes several values is given one.                 *)
(***************************************************************************)
\* the elements of a sequence
Range(seq) == {seq[i] : i \in 1..Len(seq)}

\* the subcommands
Subcommands ==
    {"status", "analyze", "read", "write", "refactor", "analyze-file", "test",
     "run", "commit", "branch", "task", "init"}

\* the options of the main parser
GlobalOptions == {"--repo", "--config", "--dry-run"}

\* the options of the subparsers that take a value
ValueOptions ==
    {"--patterns", "--path", "--message", "-m", "--files", "--output"}

\* the options of the subparsers that are flags
FlagOptions == {"--no-commit", "--no-checkout"}

\* the options a subparser declares
ParserOptions(parser) ==
    CASE parser = "analyze" -> {"--patterns"}
      [] parser \in {"write", "refactor"} -> {"--no-commit"}
      [] parser = "test" -> {"--path"}
      [] parser = "commit" -> {"--message", "-m", "--files"}
      [] parser = "branch" -> {"--no-checkout"}
      [] parser = "init" -> {"--output"}
      [] OTHER -> {}

\* the positional arguments a subparser declares, in their order
ParserPositionals(parser) ==
    CASE parser = "read" -> <<"file">>
      [] parser = "write" -> <<"file", "content">>
      [] parser = "refactor" -> <<"file", "instructions">>
      [] parser = "analyze-file" -> <<"file", "task">>
      [] parser = "run" -> <<"command">>
      [] parser = "branch" -> <<"name">>
      [] parser = "task" -> <<"description">>
      [] OTHER -> <<>>

\* the attributes a subparser puts on the namespace, next to those of the
\* main parser
ParserAttributes(parser) ==
    {ParserPositionals(parser)[i] : i \in 1..Len(ParserPositionals(parser))}
        \cup (CASE parser = "analyze" -> {"patterns"}
                [] parser \in {"write", "refactor"} -> {"no_commit"}
                [] parser = "test" -> {"path"}
                [] parser = "commit" -> {"message", "files"}
                [] parser = "branch" -> {"no_checkout"}
                [] parser = "init" -> {"output"}
                [] OTHER -> {})

\* the attributes the branch of main for a command reads
BranchAttributes(command) ==
    CASE command = "analyze" -> {"patterns"}
      [] command = "read" -> {"file"}
      [] command = "write" -> {"file", "content", "no_commit"}
      [] command = "refactor" -> {"file", "instructions", "no_commit"}
      [] command = "analyze-file" -> {"file", "task"}
      [] command = "test" -> {"path"}
      [] command = "commit" -> {"message", "files"}
      [] command = "branch" -> {"name", "no_checkout"}
      [] command = "task" -> {"description"}
      [] command = "init" -> {"output"}
      [] OTHER -> {}

RECURSIVE Positionals(_)
\* the tokens that are neither options nor values of options
Positionals(tokens) ==
    IF tokens = <<>> THEN <<>>
    ELSE IF Head(tokens) \in ValueOptions
    THEN Positionals(IF Len(tokens) >= 2 THEN Tail(Tail(tokens)) ELSE <<>>)
    ELSE IF Head(tokens) \in FlagOptions THEN Positionals(Tail(tokens))
    ELSE <<Head(tokens)>> \o Positionals(Tail(tokens))

\* the value given to one of the options, if any
OptionValue(tokens, names) ==
    LET at == {i \in 1..(Len(tokens) - 1) : tokens[i] \in names}
    IN  IF at = {} THEN [given |-> FALSE, text |-> ""]
        ELSE [given |-> TRUE, text |-> tokens[(CHOOSE i \in at : TRUE) + 1]]

\* parser.parse_args(): the namespace.  The subparsers are added with
\* dest="command" and the run parser declares a positional of the same
\* name, so that the positional of run overwrites the name of the
\* subcommand.  A missing subcommand leaves command None, written "".
ParseArgs(argv) ==
    LET dry    == argv # <<>> /\ Head(argv) = "--dry-run"
        rest   == IF dry THEN Tail(argv) ELSE argv
        parser == IF rest = <<>> THEN "" ELSE Head(rest)
        tokens == IF rest = <<>> THEN <<>> ELSE Tail(rest)
        pos    == Positionals(tokens)
        usage  == \/ parser # "" /\ parser \notin Subcommands
                  \/ Len(pos) # Len(ParserPositionals(parser))
                  \/ \E i \in 1..Len(tokens) :
                         \/ tokens[i] \in GlobalOptions
                         \/ /\ tokens[i] \in ValueOptions \cup FlagOptions
                            /\ tokens[i] \notin ParserOptions(parser)
                         \/ tokens[i] \in ValueOptions /\ i = Len(tokens)
    IN  [usage_error |-> usage,
         dry_run     |-> dry,
         parser      |-> parser,
         command     |-> IF parser = "run" /\ ~usage THEN pos[1] ELSE parser,
         positionals |-> pos,
         tokens      |-> tokens]

\* Path(text): the segments between the slashes
ParsePath(text) ==
    IF StartsWith(text, "/")
    THEN Abs(SplitFrom(Tail(text), "/", "", <<>>))
    ELSE Rel(SplitFrom(text, "/", "", <<>>))

\* the text yaml.dump writes for the default configuration
DefaultConfigText == JoinLines(YamlDump(DefaultConfigTree)) \o "\n"

\* Config().save(output), with the current directory at the repository root
SaveDefaultConfig(s, output) ==
    LET path == ResolvePath(ParsePath(output))
    IN  [s EXCEPT !.files = (Location(path) :> DefaultConfigText) @@ @,
                  !.dirs = @ \cup MkdirParents(path)]

\* how an invocation ends: the state it leaves, the exit code of the
\* process, whether an agent was constructed, the operation of the agent
\* that was called and the command handed to the runner
Exit(s, code, constructed, called, ran) ==
    [s |-> s, exit_code |-> code, constructed |-> constructed,
     called |-> called, ran |-> ran]

\* an agent constructed without regard to --dry-run
CliAgentConfigured(s, args) ==
    [s EXCEPT !.dry_run = ConfigGet(s.config.dry_run, FALSE),
              !.llm = NoLLMClient]

\* RepoAgent(repo_path=args.repo, config_path=args.config), and
\* agent.dry_run = True if --dry-run was given
CliAgent(s, args) ==
    [s EXCEPT !.dry_run = IF args.dry_run THEN TRUE
                          ELSE ConfigGet(s.config.dry_run, FALSE),
              !.llm = NoLLMClient]

\* the end of a branch whose operation left one of the states rs: an
\* exception is reported and the exit code is 1, otherwise main returns
ByOutcome(rs, called) ==
    {Exit(r, IF r.outcome = "ok" THEN 0 ELSE 1, TRUE, called, NoCommand) :
        r \in rs}

\* the end of the test and run branches:
\* sys.exit(0 if result["success"] else 1)
BySuccess(agent, results, called, ran) ==
    {Exit([agent EXCEPT !.result = r], IF r.success THEN 0 ELSE 1, TRUE,
          called, ran) : r \in results}

\* the try block of main that executes the command
Dispatch(agent, self_timeout, args, process) ==
    LET command == args.command
        pos     == args.positionals
        file    == ParsePath(pos[1])
        commit  == "--no-commit" \notin Range(args.tokens)
        files   == LET v == OptionValue(args.tokens, {"--files"})
                   IN  IF v.given THEN TheFiles(<<ParsePath(v.text)>>)
                       ELSE NoFiles
        patterns == LET v == OptionValue(args.tokens, {"--patterns"})
                    IN  IF v.given THEN Patterns(<<v.text>>) ELSE NoPatterns
    IN  IF ~(BranchAttributes(command) \subseteq ParserAttributes(args.parser))
        THEN {Exit(agent, 1, TRUE, "none", NoCommand)}
        ELSE CASE command = "status" ->
                      ByOutcome({RepoAgentGetStatus(agent)}, "get_status")
               [] command = "analyze" ->
                      ByOutcome({AnalyzeCodebase(agent, patterns)},
                                "analyze_codebase")
               [] command = "read" ->
                      ByOutcome({ReadFile(agent, file)}, "read_file")
               [] command = "write" ->
                      ByOutcome(WriteFile(agent, file, pos[2], commit),
                                "write_file")
               [] command = "refactor" ->
                      ByOutcome(RefactorFile(agent, file, commit),
                                "refactor_file")
               [] command = "analyze-file" ->
                      ByOutcome(AnalyzeFile(agent, file), "analyze_file")
               [] command = "test" ->
                      BySuccess(agent,
                                RunTests(self_timeout, agent.files, process,
                                         NoCommand,
                                         OptionValue(args.tokens,
                                                     {"--path"}).text),
                                "run_tests", NoCommand)
               [] command = "run" ->
                      BySuccess(agent,
                                RunCommand(self_timeout, process, NoTimeout),
                                "run_command", Command(command))
               [] command = "commit" ->
                      ByOutcome(CommitChanges(agent,
                                              OptionValue(args.tokens,
                                                          {"--message", "-m"}),
                                              files),
                                "commit_changes")
               [] command = "branch" ->
                      ByOutcome({CreateBranch(agent, pos[1],
                                     "--no-checkout" \notin Range(args.tokens))},
                                "create_branch")
               [] command = "task" ->
                      ByOutcome(ExecuteTask(agent, pos[1]), "execute_task")
               [] OTHER -> {Exit(agent, 0, TRUE, "none", NoCommand)}

\* main(), on the state s of the repository and of the configuration, with
\* the process that a command started by the runner would be
Main(s, self_timeout, argv, process) ==
    LET args == ParseArgs(argv)
    IN  IF args.usage_error
        THEN {Exit(s, 2, FALSE, "none", NoCommand)}
        ELSE IF args.command = ""
        THEN {Exit(s, 1, FALSE, "none", NoCommand)}
        ELSE IF args.command = "init"
        THEN IF "output" \in ParserAttributes(args.parser)
             THEN LET output == OptionValue(args.tokens, {"--output"})
                  IN  {Exit(SaveDefaultConfig(s, IF output.given
                                                 THEN output.text
                                                 ELSE "config/repoman.yaml"),
                            0, FALSE, "config.save", NoCommand)}
             ELSE {Exit(s, 1, FALSE, "none", NoCommand)}
        ELSE Dispatch(CliAgent(s, args), self_timeout, args, process)

(***************************************************************************)
(* The state machine: one agent on one repository, and a caller that makes *)
(* one call at a time and takes its result before the next call.           *)
(***************************************************************************)
VARIABLES
    files,              \* the file system: location -> content
    dirs,               \* the directories that exist
    index,              \* the git index: location -> content
    head,               \* the tree of HEAD: location -> content
    commits,            \* the commits made since construction, oldest first
    branches,           \* repo.heads
    active_branch,      \* repo.active_branch
    dry_run,            \* RepoAgent.dry_run
    config,             \* RepoAgent.config
    protected_patterns, \* FileOperations.protected_patterns
    llm,                \* RepoAgent._llm: the client, or NoLLMClient
    runner_timeout,     \* Runner.timeout
    first_llm_use,      \* history: the LLM arguments in the configuration
                        \* when the llm property was first accessed
    last,               \* the call that has just returned: its arguments and
                        \* what it gave back
    config_tree,        \* Config.config of a Config object used on its own
    config_file,        \* the file at its config_path
    config_call         \* the call on it that has just returned

vars == <<files, dirs, index, head, commits, branches, active_branch, dry_run,
          config, protected_patterns, llm, runner_timeout, first_llm_use, last,
          config_tree, config_file, config_call>>

repoVars == <<files, dirs, index, head, commits, branches, active_branch>>

agentVars == <<dry_run, config, protected_patterns, llm>>

configVars == <<config_tree, config_file, config_call>>

restVars == <<runner_timeout, first_llm_use, configVars>>

\* the paths handed to the file operations when the write gate is exercised:
\* relative and absolute spellings of a file of the repository, of a
\* protected file and of a file outside the repository
GatePaths ==
    {Rel(<<"a.py">>),
     Rel(<<"src", "code.py">>),
     Rel(<<"config", "settings.yaml">>),
     Abs(<<"repo", "config", "settings.yaml">>),
     Abs(<<"repo", "src", "..", "config", "settings.yaml">>),
     Rel(<<"..", "out.txt">>),
     Abs(<<"out.txt">>),
     Abs(<<"repo", "..", "out.txt">>)}

\* the contents written when the write gate is exercised
GateContents == {"x", "a\r\nb"}

\* the paths handed to the file operations when the commit policy is
\* exercised: a tracked file, a new file and a protected file
RepoPaths ==
    {Rel(<<"a.py">>), Rel(<<"src", "code.py">>),
     Rel(<<"config", "settings.yaml">>)}

\* the contents written when the commit policy is exercised
RepoContents == {"x", "a\r\nb"}

\* the message arguments of commit_changes
MessageArgs == {NoMessage, Message("fix"), Message("[Repoman] fix")}

\* the files arguments of commit_changes and add_files
FilesArgs == {NoFiles, TheFiles(<<>>), TheFiles(<<Rel(<<"a.py">>)>>),
              TheFiles(<<Rel(<<"src", "code.py">>)>>)}

\* the names given to create_branch
BranchNames == {"feature", "repoman/feature"}

\* Config._default_config, the entries the agent reads
DefaultConfig ==
    [auto_commit           |-> Entry(TRUE),
     commit_message_prefix |-> Entry(DefaultPrefix),
     branch_prefix         |-> Entry(DefaultBranchPrefix),
     dry_run               |-> Entry(FALSE),
     protected_files       |-> Entry(DefaultProtectedPatterns),
     llm_provider          |-> Entry("openai"),
     llm_model             |-> Entry("gpt-4"),
     llm_temperature       |-> Entry("0.7"),
     llm_max_tokens        |-> Entry("2000"),
     tasks_timeout         |-> Entry(Seconds(300))]

\* a call that returns no dictionary
NoResult ==
    [kind |-> "none", cause |-> "", success |-> FALSE, returncode |-> 0,
     stdout |-> "", stderr |-> "", command |-> ""]

\* the llm property has not been accessed yet
NoLLMUse ==
    [seen |-> FALSE,
     args |-> [provider |-> "", model |-> "", temperature |-> "",
               max_tokens |-> ""]]

\* the call record when no call has just returned
NoCall ==
    [op |-> "none", path |-> Rel(<<>>), content |-> "", flag |-> FALSE,
     name |-> "", message_arg |-> NoMessage, files_arg |-> NoFiles,
     outcome |-> "ok", text |-> "", sha |-> 0, llm_calls |-> 0,
     warning |-> "", message |-> "", llm_uses |-> 0, clients |-> 0,
     llm_text |-> "", llm_message |-> "", llm_diff |-> NoDiff,
     result |-> NoResult, process |-> Forever,
     timeout_arg |-> NoTimeout, command_arg |-> NoCommand,
     patterns_arg |-> NoPatterns, argv |-> <<>>, exit_code |-> 0,
     constructed |-> FALSE, called |-> "none", ran |-> NoCommand]

\* the caller is between two calls
Idle == last.op = "none"

\* the state as the record the operations work on
Cur ==
    [files |-> files, dirs |-> dirs, index |-> index, head |-> head,
     commits |-> commits, branches |-> branches,
     active_branch |-> active_branch, dry_run |-> dry_run, config |-> config,
     protected_patterns |-> protected_patterns, llm |-> llm,
     outcome |-> "ok", text |-> "", sha |-> 0, llm_calls |-> 0,
     warning |-> "", message |-> "", llm_uses |-> 0, clients |-> 0,
     llm_text |-> "", llm_message |-> "", llm_diff |-> NoDiff,
     result |-> NoResult]

\* the repository the agent is constructed on: two committed files, nothing
\* modified, staged or untracked
InitFiles ==
    (<<"repo", "a.py">> :> "x") @@ (<<"repo", "config", "settings.yaml">> :> "x")

\* no call on the Config object yet
NoConfigCall ==
    [op |-> "", key |-> "", arg |-> Leaf(None), outcome |-> "ok",
     value |-> Leaf(None), before |-> Leaf(None)]

\* Config.__init__ where the file at config_path is file
ConfigInit(file) ==
    /\ config_file = file
    /\ config_tree = LoadConfig(file).config
    /\ config_call = NoConfigCall

\* the fields of the agent after RepoAgent.__init__ with the configuration cfg
AgentFields(cfg) ==
    /\ files = InitFiles
    /\ dirs = {<<>>, <<"repo">>, <<"repo", "config">>}
    /\ index = WorkTree(InitFiles)
    /\ head = WorkTree(InitFiles)
    /\ commits = <<>>
    /\ branches = {"main"}
    /\ active_branch = "main"
    /\ config = cfg
    /\ dry_run = ConfigGet(cfg.dry_run, FALSE)
    /\ protected_patterns =
           InitProtectedPatterns(ConfigGet(cfg.protected_files, <<>>))
    /\ llm = NoLLMClient
    /\ runner_timeout = ConfigGet(cfg.tasks_timeout, NoTimeout)
    /\ first_llm_use = NoLLMUse
    /\ last = NoCall

\* RepoAgent.__init__ with the configuration cfg
AgentInit(cfg) ==
    /\ AgentFields(cfg)
    /\ ConfigInit(NoFile)

\* an agent with the default configuration
Init == AgentInit(DefaultConfig)

\* the state after a call that left r
Returned(r, call) ==
    /\ files' = r.files
    /\ dirs' = r.dirs
    /\ index' = r.index
    /\ head' = r.head
    /\ commits' = r.commits
    /\ branches' = r.branches
    /\ active_branch' = r.active_branch
    /\ llm' = r.llm
    /\ last' = [call EXCEPT !.outcome = r.outcome, !.text = r.text,
                            !.sha = r.sha, !.llm_calls = r.llm_calls,
                            !.warning = r.warning, !.message = r.message,
                            !.llm_uses = r.llm_uses, !.clients = r.clients,
                            !.llm_text = r.llm_text,
                            !.llm_message = r.llm_message,
                            !.llm_diff = r.llm_diff,
                            !.result = r.result]
    /\ first_llm_use' =
           IF ~first_llm_use.seen /\ r.llm_uses > 0
           THEN [seen |-> TRUE, args |-> InitLLMArgs(config)]
           ELSE first_llm_use
    /\ UNCHANGED <<dry_run, config, protected_patterns, runner_timeout,
                   configVars>>

\* the history has room for the commit a call may make
Room == Len(commits) < MaxCommits

\* agent.write_file(file_path, content, commit)
AgentWriteFile(paths, contents) ==
    \E p \in paths, c \in contents, commit \in BOOLEAN :
        /\ Idle /\ Room
        /\ \E r \in WriteFile(Cur, p, c, commit) :
               Returned(r, [NoCall EXCEPT !.op = "write_file", !.path = p,
                                          !.content = c, !.flag = commit])

\* agent.refactor_file(file_path, instructions, commit)
AgentRefactorFile(paths) ==
    \E p \in paths, commit \in BOOLEAN :
        /\ Idle /\ Room
        /\ \E r \in RefactorFile(Cur, p, commit) :
               Returned(r, [NoCall EXCEPT !.op = "refactor_file", !.path = p,
                                          !.flag = commit])

\* agent.read_file(file_path)
AgentReadFile(paths) ==
    \E p \in paths :
        /\ Idle
        /\ Returned(ReadFile(Cur, p),
                    [NoCall EXCEPT !.op = "read_file", !.path = p])

\* agent.commit_changes(message, files)
AgentCommitChanges(messages) ==
    \E m \in messages, f \in FilesArgs :
        /\ Idle /\ Room
        /\ \E r \in CommitChanges(Cur, m, f) :
               Returned(r, [NoCall EXCEPT !.op = "commit_changes",
                                          !.message_arg = m, !.files_arg = f])

\* agent.create_branch(branch_name, checkout)
AgentCreateBranch ==
    \E n \in BranchNames, checkout \in BOOLEAN :
        /\ Idle
        /\ Returned(CreateBranch(Cur, n, checkout),
                    [NoCall EXCEPT !.op = "create_branch", !.name = n,
                                   !.flag = checkout])

\* agent.dry_run = b
SetDryRun ==
    \E b \in BOOLEAN :
        /\ Idle
        /\ dry_run' = b
        /\ UNCHANGED <<repoVars, config, protected_patterns, llm, last, restVars>>

\* agent.config.set("repository.auto_commit", v)
ConfigSetAutoCommit ==
    \E e \in {Entry(TRUE), Entry(FALSE), Unset} :
        /\ Idle
        /\ config' = [config EXCEPT !.auto_commit = e]
        /\ UNCHANGED <<repoVars, dry_run, protected_patterns, llm, last, restVars>>

\* agent.file_ops.write_file(file_path, content, force)
FileOpsWrite(paths, contents) ==
    \E p \in paths, c \in contents, force \in BOOLEAN :
        LET w == FileOpsWriteFile(files, dirs, protected_patterns, p, c, force)
        IN  /\ Idle
            /\ Returned([Cur EXCEPT !.files = w.files, !.dirs = w.dirs,
                                    !.outcome = w.outcome],
                        [NoCall EXCEPT !.op = "file_ops.write_file",
                                       !.path = p, !.content = c,
                                       !.flag = force])

\* agent.git_ops.add_files(files)
GitAddFiles ==
    \E f \in FilesArgs :
        LET a == AddFiles(WorkTree(files), index, f.paths)
        IN  /\ Idle
            /\ Returned([Cur EXCEPT !.index = a.index, !.outcome = a.outcome],
                        [NoCall EXCEPT !.op = "git_ops.add_files",
                                       !.files_arg = f])

\* the caller takes the result of a call that has returned
TakeResult ==
    /\ ~Idle
    /\ last.result.kind # "blocked"
    /\ last' = NoCall
    /\ UNCHANGED <<repoVars, agentVars, restVars>>

\* calls on an agent whose caller exercises the commit policy
Next ==
    \/ AgentWriteFile(RepoPaths, RepoContents)
    \/ AgentRefactorFile(RepoPaths)
    \/ AgentReadFile(RepoPaths)
    \/ AgentCommitChanges(MessageArgs)
    \/ AgentCreateBranch
    \/ SetDryRun
    \/ ConfigSetAutoCommit
    \/ GitAddFiles
    \/ TakeResult

Spec == Init /\ [][Next]_vars

\* calls on an agent whose caller exercises the write gate
NextGate ==
    \/ AgentWriteFile(GatePaths, GateContents)
    \/ AgentRefactorFile(GatePaths)
    \/ AgentReadFile(GatePaths)
    \/ FileOpsWrite(GatePaths, GateContents)
    \/ SetDryRun
    \/ TakeResult

\* a configuration file that turns auto-commit off
QuietConfig == [DefaultConfig EXCEPT !.auto_commit = Entry(FALSE)]

\* an agent whose configuration turns auto-commit off
InitGate == AgentInit(QuietConfig)

SpecGate == InitGate /\ [][NextGate]_vars

(***************************************************************************)
(* Agents with different commit-message prefixes, whose caller modifies a  *)
(* tracked file and commits with different messages.                       *)
(***************************************************************************)
\* the values of repository.commit_message_prefix
Prefixes == {Unset, Entry("[Repoman]"), Entry(""), Entry("fix"),
             Entry("[Repoman] "), Entry("auto:")}

\* the message arguments of commit_changes
PrefixMessageArgs ==
    {NoMessage, Message("fix"), Message("[Repoman] fix"), Message("[Repoman]"),
     Message("fix it"), Message(" fix"), Message("auto: fix"),
     Message("[Repoman] [Repoman] fix")}

InitPrefix ==
    \E e \in Prefixes :
        AgentInit([DefaultConfig EXCEPT !.commit_message_prefix = e])

NextPrefix ==
    \/ FileOpsWrite({Rel(<<"a.py">>)}, RepoContents)
    \/ AgentCommitChanges(PrefixMessageArgs)
    \/ TakeResult

SpecPrefix == InitPrefix /\ [][NextPrefix]_vars

(***************************************************************************)
(* Agents constructed from configurations with different tasks.timeout     *)
(* entries, whose caller runs commands, tests, linters, formatters and     *)
(* scripts, and creates the files the command detection looks for.         *)
(***************************************************************************)
\* the processes the environment may run for a command
Processes ==
    {Exits(0, 1), Exits(1, 1), Exits(0, 2), Exits(2, 5), Forever, SpawnFails}

\* the timeout arguments of Runner.run_command
TimeoutArgs == {NoTimeout, Seconds(0), Seconds(2), Seconds(10)}

\* the tasks.timeout entries of the configuration file; a file without the
\* entry leaves it unset
TimeoutEntries == {Entry(Seconds(300)), Entry(Seconds(2)), Unset}

\* the files the command detection looks for
MarkerFiles ==
    {Rel(<<"pytest.ini">>), Rel(<<"setup.py">>), Rel(<<"package.json">>),
     Rel(<<"Makefile">>), Rel(<<"tox.ini">>), Rel(<<".flake8">>),
     Rel(<<"pyproject.toml">>)}

\* the scripts handed to run_script: one that exists and one that does not
ScriptPaths == {Abs(<<"repo", "a.py">>), Abs(<<"repo", "run.sh">>)}

\* the command arguments of run_tests, run_linter and run_formatter
CommandArgs == {NoCommand, Command("make check")}

\* the state after a call to the runner that returned the dictionary r, or
\* that is blocked
Ran(r, call) == Returned([Cur EXCEPT !.result = r], call)

\* agent.run_command(command)
AgentRunCommand ==
    \E p \in Processes :
        /\ Idle
        /\ \E r \in RunCommand(runner_timeout, p, NoTimeout) :
               Ran(r, [NoCall EXCEPT !.op = "run_command", !.process = p])

\* agent.runner.run_command(command, timeout=t)
RunnerRunCommand ==
    \E p \in Processes, t \in TimeoutArgs :
        /\ Idle
        /\ \E r \in RunCommand(runner_timeout, p, t) :
               Ran(r, [NoCall EXCEPT !.op = "runner.run_command",
                      !.process = p, !.timeout_arg = t])

\* agent.run_tests(test_path)
AgentRunTests ==
    \E p \in Processes, path \in {"", "tests"} :
        /\ Idle
        /\ \E r \in RunTests(runner_timeout, files, p, NoCommand, path) :
               Ran(r, [NoCall EXCEPT !.op = "run_tests", !.process = p,
                      !.name = path])

\* agent.runner.run_tests(test_command)
RunnerRunTests ==
    \E p \in Processes, c \in CommandArgs :
        /\ Idle
        /\ \E r \in RunTests(runner_timeout, files, p, c, "") :
               Ran(r, [NoCall EXCEPT !.op = "runner.run_tests",
                      !.process = p, !.command_arg = c])

\* agent.runner.run_linter(linter_command)
RunnerRunLinter ==
    \E p \in Processes, c \in CommandArgs :
        /\ Idle
        /\ \E r \in RunLinter(runner_timeout, files, p, c) :
               Ran(r, [NoCall EXCEPT !.op = "runner.run_linter",
                      !.process = p, !.command_arg = c])

\* agent.runner.run_formatter(formatter_command, check_only)
RunnerRunFormatter ==
    \E p \in Processes, c \in CommandArgs, check_only \in BOOLEAN :
        /\ Idle
        /\ \E r \in RunFormatter(runner_timeout, files, p, c, check_only) :
               Ran(r, [NoCall EXCEPT !.op = "runner.run_formatter",
                      !.process = p, !.command_arg = c,
                      !.flag = check_only])

\* agent.runner.run_script(script_path)
RunnerRunScript ==
    \E p \in Processes, script \in ScriptPaths :
        /\ Idle
        /\ \E r \in RunScript(runner_timeout, files, p, script) :
               Ran(r, [NoCall EXCEPT !.op = "runner.run_script",
                      !.process = p, !.path = script])

InitRunner ==
    \E e \in TimeoutEntries :
        AgentInit([DefaultConfig EXCEPT !.tasks_timeout = e])

NextRunner ==
    \/ AgentRunCommand
    \/ RunnerRunCommand
    \/ AgentRunTests
    \/ RunnerRunTests
    \/ RunnerRunLinter
    \/ RunnerRunFormatter
    \/ RunnerRunScript
    \/ FileOpsWrite(MarkerFiles, {"x"})
    \/ TakeResult

SpecRunner == InitRunner /\ [][NextRunner]_vars

(***************************************************************************)
(* The fence cleaning of LLM output on its own: the caller hands            *)
(* _clean_code_output a text of up to MaxLines lines, with or without       *)
(* whitespace around it.                                                    *)
(***************************************************************************)
\* the lines the texts are made of: fences, an indented fence, code, a line
\* that ends in a carriage return, an empty line
CleanLines == {Fence, Fence \o "py", " " \o Fence, "a", "b\r", ""}

\* the texts of n lines
LineSeqs(n) == [1..n -> CleanLines]

\* the whitespace put before and after a text
Paddings == {"", "\n", " "}

\* the texts handed to _clean_code_output
CleanInputs ==
    {pre \o JoinLines(ls) \o post :
        ls \in UNION {LineSeqs(n) : n \in 1..MaxLines},
        pre \in Paddings, post \in Paddings}

\* agent._clean_code_output(code)
CleanCall ==
    \E code \in CleanInputs :
        /\ Idle
        /\ last' = [NoCall EXCEPT !.op = "_clean_code_output",
                                  !.content = code,
                                  !.text = CleanCodeOutput(code)]
        /\ UNCHANGED <<repoVars, agentVars, restVars>>

NextClean ==
    \/ CleanCall
    \/ TakeResult

SpecClean == Init /\ [][NextClean]_vars

(***************************************************************************)
(* An agent on a repository with a modified tracked file, whose caller     *)
(* changes the llm entries of the configuration between operations that    *)
(* use the LLM.                                                            *)
(***************************************************************************)
\* config.set(key, value) on the llm keys: the entry and its new value;
\* the value None leaves the entry unset
LLMSettings ==
    {<<"llm_provider", Entry("openai")>>, <<"llm_provider", Entry("Anthropic")>>,
     <<"llm_provider", Entry("azure")>>, <<"llm_model", Unset>>,
     <<"llm_model", Entry("gpt-4")>>, <<"llm_temperature", Entry("0")>>,
     <<"llm_temperature", Entry("0.7")>>, <<"llm_max_tokens", Entry("100")>>,
     <<"llm_max_tokens", Entry("2000")>>}

\* agent.config.set("llm.<key>", value)
ConfigSetLLM ==
    \E kv \in LLMSettings :
        /\ Idle
        /\ config' = [config EXCEPT ![kv[1]] = kv[2]]
        /\ UNCHANGED <<repoVars, dry_run, protected_patterns, llm, last,
                       restVars>>

\* agent.analyze_file(file_path, task)
AgentAnalyzeFile ==
    \E p \in {Rel(<<"a.py">>), Rel(<<"src", "code.py">>)} :
        /\ Idle
        /\ \E r \in AnalyzeFile(Cur, p) :
               Returned(r, [NoCall EXCEPT !.op = "analyze_file", !.path = p])

\* agent.execute_task(task_description); the description is kept in name
AgentExecuteTask(tasks) ==
    \E t \in tasks :
        /\ Idle
        /\ \E r \in ExecuteTask(Cur, t) :
               Returned(r, [NoCall EXCEPT !.op = "execute_task", !.name = t])

\* agent.commit_changes()
AgentCommitGenerated ==
    /\ Idle /\ Room
    /\ \E r \in CommitChanges(Cur, NoMessage, NoFiles) :
           Returned(r, [NoCall EXCEPT !.op = "commit_changes"])

\* the agent is constructed on a repository in which a.py is modified
InitLLM ==
    /\ files = (<<"repo", "a.py">> :> "y") @@ InitFiles
    /\ dirs = {<<>>, <<"repo">>, <<"repo", "config">>}
    /\ index = WorkTree(InitFiles)
    /\ head = WorkTree(InitFiles)
    /\ commits = <<>>
    /\ branches = {"main"}
    /\ active_branch = "main"
    /\ config = QuietConfig
    /\ dry_run = ConfigGet(QuietConfig.dry_run, FALSE)
    /\ protected_patterns =
           InitProtectedPatterns(ConfigGet(QuietConfig.protected_files, <<>>))
    /\ llm = NoLLMClient
    /\ runner_timeout = ConfigGet(QuietConfig.tasks_timeout, NoTimeout)
    /\ first_llm_use = NoLLMUse
    /\ last = NoCall
    /\ ConfigInit(NoFile)

NextLLM ==
    \/ ConfigSetLLM
    \/ AgentAnalyzeFile
    \/ AgentExecuteTask({"add tests"})
    \/ AgentRefactorFile({Rel(<<"a.py">>)})
    \/ AgentCommitGenerated
    \/ TakeResult

SpecLLM == InitLLM /\ [][NextLLM]_vars

(***************************************************************************)
(* A Config object used on its own: constructed where a file may already   *)
(* be, read and changed by dotted keys, saved, and constructed again from  *)
(* the file.                                                               *)
(***************************************************************************)
\* what the file at config_path holds when the object is constructed: no
\* file, a file with an empty section and a flag, a file that is one word,
\* an empty file
InitialFiles ==
    {NoFile,
     File(<<"llm:", "repository:", "  auto_commit: true">>),
     File(<<"abc">>),
     File(<<>>)}

\* the keys looked up
GetKeys ==
    {"llm", "llm.model", "llm.model.name", "custom.value", "safety.dry_run"}

\* the defaults handed to get
GetDefaults == {Leaf(None), Leaf(Str("default"))}

\* the keys set
SetKeys == {"llm.model", "custom.value"}

\* the values set: a string, a flag, a tuple
SetValues ==
    {Leaf(Str("true")), Leaf(Bool(FALSE)),
     Items(Tuple, <<Integer("1"), Integer("2")>>)}

\* config.get(key, default)
ConfigGetValue ==
    \E key \in GetKeys, default \in GetDefaults :
        LET r == Get(config_tree, key, default)
        IN  /\ config_call' = [op |-> "get", key |-> key, arg |-> default,
                               outcome |-> r.outcome, value |-> r.value,
                               before |-> config_tree]
            /\ UNCHANGED <<repoVars, agentVars, runner_timeout, first_llm_use,
                           last, config_tree, config_file>>

\* config.set(key, value)
ConfigSetValue ==
    \E key \in SetKeys, value \in SetValues :
        LET r == Set(config_tree, key, value)
        IN  /\ config_tree' = r.config
            /\ config_call' = [op |-> "set", key |-> key, arg |-> value,
                               outcome |-> r.outcome, value |-> Leaf(None),
                               before |-> config_tree]
            /\ UNCHANGED <<repoVars, agentVars, runner_timeout, first_llm_use,
                           last, config_file>>

\* config.save()
ConfigSave ==
    /\ config_file' = Save(config_tree)
    /\ config_call' = [NoConfigCall EXCEPT !.op = "save",
                                           !.before = config_tree]
    /\ UNCHANGED <<repoVars, agentVars, runner_timeout, first_llm_use, last,
                   config_tree>>

\* Config(config_path): a second object, whose tree is the value of the call
ConfigNew ==
    LET r == LoadConfig(config_file)
    IN  /\ config_call' = [NoConfigCall EXCEPT !.op = "Config",
                                               !.outcome = r.outcome,
                                               !.value = r.config,
                                               !.before = config_tree]
        /\ UNCHANGED <<repoVars, agentVars, runner_timeout, first_llm_use,
                       last, config_tree, config_file>>

InitConfig ==
    /\ AgentFields(DefaultConfig)
    /\ \E file \in InitialFiles : ConfigInit(file)

NextConfig ==
    \/ ConfigGetValue
    \/ ConfigSetValue
    \/ ConfigSave
    \/ ConfigNew

SpecConfig == InitConfig /\ [][NextConfig]_vars

(***************************************************************************)
(* An agent whose caller analyses the codebase with different pattern      *)
(* lists while files come and go in the working tree.                      *)
(***************************************************************************)
\* MaxPatterns times the pattern that matches every file
EveryFile == [i \in 1..MaxPatterns |-> "*"]

\* the patterns arguments of analyze_codebase
PatternsArgs ==
    {NoPatterns, Patterns(<<>>), Patterns(EveryFile)}
        \cup {Patterns(<<p>>) : p \in {"*.py", "*", "a*"}}
        \cup {Patterns(<<p, q>>) : p, q \in {"*.py", "*", "a*"}}

\* the files written before an analysis
AnalyzePaths ==
    {Rel(<<"b.js">>), Rel(<<"src", "code.py">>), Rel(<<"src", "a.py">>)}

\* agent.analyze_codebase(patterns)
AgentAnalyzeCodebase ==
    \E p \in PatternsArgs :
        /\ Idle
        /\ Returned(AnalyzeCodebase(Cur, p),
                    [NoCall EXCEPT !.op = "analyze_codebase",
                                   !.patterns_arg = p])

NextAnalyze ==
    \/ AgentAnalyzeCodebase
    \/ FileOpsWrite(AnalyzePaths, {"x"})
    \/ GitAddFiles
    \/ TakeResult

SpecAnalyze == Init /\ [][NextAnalyze]_vars

(***************************************************************************)
(* The command line run again and again on one repository, under           *)
(* configuration files that set safety.dry_run, clear it or leave it out.  *)
(* dry_run and llm are those of the agent of the last invocation.          *)
(***************************************************************************)
\* the command lines after the main options
Commands ==
    {<<>>, <<"status">>, <<"init">>, <<"read", "a.py">>,
     <<"test">>, <<"test", "--path", "tests">>,
     <<"run">>, <<"run", "ls">>, <<"run", "">>, <<"run", "status">>,
     <<"run", "run">>, <<"run", "test">>, <<"run", "init">>,
     <<"write", "a.py", "y">>, <<"write", "a.py", "y", "--no-commit">>,
     <<"write", "src/code.py", "y">>,
     <<"refactor", "a.py", "tidy">>,
     <<"commit">>, <<"commit", "-m", "fix">>,
     <<"branch", "feature">>, <<"branch", "feature", "--no-checkout">>}

\* the command lines, with and without --dry-run
CommandLines == Commands \cup {<<"--dry-run">> \o c : c \in Commands}

\* the processes a command line may start
CliProcesses(argv) ==
    IF ParseArgs(argv).command \in {"test", "run"} THEN Processes
    ELSE {NoCall.process}

\* the state after an invocation that ended as o
Exited(o, call) ==
    /\ files' = o.s.files
    /\ dirs' = o.s.dirs
    /\ index' = o.s.index
    /\ head' = o.s.head
    /\ commits' = o.s.commits
    /\ branches' = o.s.branches
    /\ active_branch' = o.s.active_branch
    /\ dry_run' = IF o.constructed THEN o.s.dry_run ELSE dry_run
    /\ llm' = IF o.constructed THEN o.s.llm ELSE llm
    /\ last' = [call EXCEPT !.outcome = o.s.outcome, !.text = o.s.text,
                            !.sha = o.s.sha, !.llm_calls = o.s.llm_calls,
                            !.warning = o.s.warning,
                            !.message = o.s.message,
                            !.llm_uses = o.s.llm_uses,
                            !.clients = o.s.clients,
                            !.llm_text = o.s.llm_text,
                            !.llm_message = o.s.llm_message,
                            !.llm_diff = o.s.llm_diff,
                            !.result = o.s.result,
                            !.exit_code = o.exit_code,
                            !.constructed = o.constructed,
                            !.called = o.called, !.ran = o.ran]
    /\ UNCHANGED <<config, protected_patterns, restVars>>

\* repoman [--dry-run] command ...
CliMain(argvs) ==
    \E argv \in argvs :
        \E p \in CliProcesses(argv) :
            /\ Idle /\ Room
            /\ \E o \in Main(Cur, runner_timeout, argv, p) :
                   Exited(o, [NoCall EXCEPT !.op = "cli", !.argv = argv,
                                           !.process = p])

\* the configuration files: safety.dry_run true, false, absent
InitCli ==
    \E e \in {Entry(TRUE), Entry(FALSE), Unset} :
        AgentInit([DefaultConfig EXCEPT !.dry_run = e])

NextCli ==
    \/ CliMain(CommandLines)
    \/ TakeResult

SpecCli == InitCli /\ [][NextCli]_vars

(***************************************************************************)
(* Agents constructed on configurations with and without a list of         *)
(* protected files, whose caller asks the gate about paths and writes.     *)
(***************************************************************************)
\* safety.protected_files in the configuration file: absent, an empty list,
\* a list of the user's own, the list of the default configuration
ProtectedEntries ==
    {Unset, Entry(<<>>), Entry(<<"secrets/**">>),
     Entry(DefaultProtectedPatterns)}

\* the paths the gate is asked about: the paths written, and directories,
\* files below other protected directories, the root and more spellings
ProtectPaths ==
    GatePaths \cup
    {Rel(<<"config">>), Rel(<<".git", "config">>),
     Rel(<<".github", "workflows", "ci.yml">>), Rel(<<"configs", "x">>),
     Rel(<<"secrets", "key">>), Abs(<<"repo">>), Abs(<<"repo", ".git">>),
     Abs(<<"tmp", "..", "repo", "a.py">>)}

\* agent.file_ops.is_protected(file_path)
FileOpsIsProtected(paths) ==
    \E p \in paths :
        /\ Idle
        /\ Returned([Cur EXCEPT !.result =
                        [kind  |-> "bool",
                         value |-> IsProtected(p, protected_patterns)]],
                    [NoCall EXCEPT !.op = "file_ops.is_protected",
                                   !.path = p])

InitProtect ==
    \E e \in ProtectedEntries :
        AgentInit([QuietConfig EXCEPT !.protected_files = e])

NextProtect ==
    \/ FileOpsIsProtected(ProtectPaths)
    \/ AgentWriteFile(GatePaths, {"x"})
    \/ FileOpsWrite(GatePaths, {"x"})
    \/ SetDryRun
    \/ TakeResult

SpecProtect == InitProtect /\ [][NextProtect]_vars

(***************************************************************************)
(* An agent whose caller has tasks planned, in dry_run and outside it, on  *)
(* a repository it writes to and stages in between.                        *)
(***************************************************************************)
\* the task descriptions
Tasks == {"add tests", "delete the repository"}

NextTask ==
    \/ AgentExecuteTask(Tasks)
    \/ SetDryRun
    \/ FileOpsWrite(AnalyzePaths, {"x"})
    \/ GitAddFiles
    \/ TakeResult

SpecTask == Init /\ [][NextTask]_vars

(***************************************************************************)
(* An agent whose caller reads, writes, commits, branches, runs commands    *)
(* and asks for the status; the credentials of the LLM may be missing, so  *)
(* that a construction of the client fails.                                *)
(***************************************************************************)
\* agent.get_status()
AgentGetStatus ==
    /\ Idle
    /\ Returned(RepoAgentGetStatus(Cur), [NoCall EXCEPT !.op = "get_status"])

\* the files this caller reads and writes
PlainPaths == {Rel(<<"a.py">>), Rel(<<"src", "code.py">>)}

NextPlain ==
    \/ AgentReadFile(PlainPaths)
    \/ AgentAnalyzeCodebase
    \/ AgentGetStatus
    \/ AgentRunTests
    \/ AgentRunCommand
    \/ AgentCreateBranch
    \/ AgentWriteFile(PlainPaths, {"y"})
    \/ AgentCommitChanges({NoMessage, Message("fix")})
    \/ SetDryRun
    \/ TakeResult

SpecPlain == Init /\ [][NextPlain]_vars

\* the shape of the state
TypeOK ==
    /\ DOMAIN files \subseteq
           {Location(ResolvePath(p)) :
               p \in GatePaths \cup MarkerFiles \cup AnalyzePaths
                         \cup {Rel(<<"config", "repoman.yaml">>)}}
    /\ DOMAIN index \subseteq DOMAIN WorkTree(files)
    /\ Len(commits) <= MaxCommits
    /\ dry_run \in BOOLEAN
    /\ llm.serial \in {0, 1}
    /\ first_llm_use.seen \in BOOLEAN
    /\ config_tree[<<>>].t \in {"dict", "str"}
    /\ config_file.exists \in BOOLEAN
    /\ config_call.op \in {"", "get", "set", "save", "Config"}
    /\ config_call.outcome \in {"ok", "TypeError", "ConstructorError"}
    /\ config_call.op = "Config" /\ config_call.outcome = "ok"
           => config_call.value[<<>>].t \in {"dict", "str"}

(***************************************************************************)
(* Properties of the write gate, the dry-run and auto-commit policies and  *)
(* the commit-message prefix.                                              *)
(***************************************************************************)
\* the location that write_file would open for file_path
Target(file_path) == Location(ResolvePath(file_path))

\* the target of file_path lies in the repository and, taken relative to the
\* root, matches a protected pattern
TargetProtected(file_path) ==
    /\ InRepo(Target(file_path))
    /\ MatchesAny(RepoRelative(Target(file_path)), protected_patterns)

\* the call was a write that the gate applies to: FileOperations.write_file
\* without force, or RepoAgent.write_file outside dry-run
GatedWrite(call, dry) ==
    \/ call.op = "file_ops.write_file" /\ ~call.flag
    \/ call.op = "write_file" /\ ~dry

\* nothing is modified, staged or untracked
CleanTree(fs, idx, hd) ==
    /\ Modified(WorkTree(fs), idx) = {}
    /\ StagedPaths(idx, hd) = {}
    /\ Untracked(WorkTree(fs), idx) = {}

\* the files outside the repository are the same after the step as before
OutsideUnchanged ==
    \A l \in DOMAIN files \cup DOMAIN files' :
        ~InRepo(l) =>
            /\ l \in DOMAIN files
            /\ l \in DOMAIN files'
            /\ files'[l] = files[l]

\* C1: a write without force to a path whose target matches a protected
\* pattern raises PermissionError and leaves the files and the directories as
\* they were, whatever the spelling of the path.
C1_ProtectedWriteRefused ==
    [][(GatedWrite(last', dry_run) /\ TargetProtected(last'.path))
          => /\ last'.outcome = "PermissionError"
             /\ files' = files
             /\ dirs' = dirs]_vars

\* C2: a write without force whose target is not below the repository root
\* raises PermissionError and writes nothing, and no write_file or
\* refactor_file call of the agent creates or modifies a file outside the
\* repository.
C2_NoWriteOutsideRepo ==
    [][/\ (GatedWrite(last', dry_run) /\ ~InRepo(Target(last'.path)))
             => (last'.outcome = "PermissionError" /\ files' = files)
       /\ last'.op \in {"write_file", "refactor_file"} => OutsideUnchanged]_vars

\* C3: under dry_run, write_file, refactor_file, commit_changes and
\* create_branch change no file, nor the index, the history or the branches;
\* write_file and create_branch return nothing and commit_changes returns None.
C3_DryRunChangesNothing ==
    [][(dry_run /\ last'.op \in {"write_file", "refactor_file",
                                 "commit_changes", "create_branch"})
          => /\ UNCHANGED repoVars
             /\ last'.op # "refactor_file"
                   => (last'.outcome = "ok" /\ last'.text = "" /\ last'.sha = 0)
      ]_vars

\* C3, the case: a commit_changes call under dry_run, with a modified file
\* that a commit would have taken, has returned None
C3_Witness ==
    /\ dry_run
    /\ last.op = "commit_changes"
    /\ last.outcome = "ok"
    /\ last.sha = 0
    /\ Modified(WorkTree(files), index) # {}

\* C4: a write to a path inside the repository that matches no protected
\* pattern succeeds, and a read of the path then returns the content written.
C4_WriteThenRead ==
    (/\ GatedWrite(last, dry_run)
     /\ InRepo(Target(last.path))
     /\ ~TargetProtected(last.path))
        => /\ last.outcome = "ok"
           /\ FileOpsReadFile(files, last.path)
                  = [outcome |-> "ok", text |-> last.content]

\* C5: with auto-commit on, a write_file call with commit=true that succeeds
\* and changes the working tree adds a commit that holds the written file,
\* unless the commit step raised.
C5_WriteIsCommitted ==
    [][(/\ last'.op = "write_file"
        /\ ~dry_run
        /\ AutoCommitOn(config)
        /\ last'.flag
        /\ last'.outcome = "ok"
        /\ last'.warning = ""
        /\ WorkTree(files') # WorkTree(files))
          => /\ Len(commits') = Len(commits) + 1
             /\ Target(last'.path) \in Last(commits').changes]_vars

\* C6: the commit that the auto-commit of write_file makes changes the
\* written file only.
C6_CommitHoldsOnlyTheFile ==
    [][(last'.op = "write_file" /\ Len(commits') = Len(commits) + 1)
          => Last(commits').changes \subseteq {Target(last'.path)}]_vars

\* C7: write_file raises nothing but PermissionError: whatever happens in the
\* auto-commit, a write that passed the gate returns normally and the file
\* holds the content written.
C7_AutoCommitFailureKeepsWrite ==
    last.op = "write_file"
        => /\ last.outcome \in {"ok", "PermissionError"}
           /\ (~dry_run /\ last.outcome = "ok")
                 => /\ Target(last.path) \in DOMAIN files
                    /\ files[Target(last.path)] = last.content

\* C7, the case: the auto-commit of a write_file call has failed in the use
\* of the LLM client
C7_Witness ==
    /\ last.op = "write_file"
    /\ last.warning = "LLMError"
    /\ last.outcome = "ok"
    /\ files[Target(last.path)] = last.content

\* C8: write_file with commit=false, or with repository.auto_commit false or
\* unset, leaves the index and the history as they were.
C8_NoCommitWithoutFlag ==
    [][(last'.op = "write_file" /\ (~last'.flag \/ ~AutoCommitOn(config)))
          => (index' = index /\ head' = head /\ commits' = commits)]_vars

\* C8, the case: with auto-commit on, write_file with commit=false has
\* written a tracked file, which is now modified and not staged
C8_Witness ==
    /\ last.op = "write_file"
    /\ ~last.flag
    /\ last.outcome = "ok"
    /\ ~dry_run
    /\ AutoCommitOn(config)
    /\ Target(last.path) \in Modified(WorkTree(files), index)

\* C9: outside dry_run, commit_changes without files on a repository with
\* nothing modified, staged or untracked raises the nothing-to-commit error,
\* makes no commit and does not use the LLM.
C9_CleanTreeNothingToCommit ==
    [][(/\ last'.op = "commit_changes"
        /\ ~dry_run
        /\ ~last'.files_arg.given
        /\ CleanTree(files, index, head))
          => /\ last'.outcome = "ValueError"
             /\ commits' = commits
             /\ last'.llm_calls = 0
             /\ llm' = llm]_vars

\* C9, the case: commit_changes without message and files has raised on a
\* clean tree
C9_Witness ==
    /\ last.op = "commit_changes"
    /\ ~dry_run
    /\ ~last.files_arg.given
    /\ ~last.message_arg.given
    /\ CleanTree(files, index, head)
    /\ last.outcome = "ValueError"

\* the prefix that commit_changes reads from the configuration
ConfiguredPrefix == ConfigGet(config.commit_message_prefix, DefaultPrefix)

\* C10: the message that commit_changes hands to the commit starts with the
\* configured prefix, the prefix step applied to it again returns it
\* unchanged, and a message argument that starts with the prefix is handed on
\* as it is.
C10_PrefixIdempotent ==
    (last.op = "commit_changes" /\ last.message # "")
        => /\ StartsWith(last.message, ConfiguredPrefix)
           /\ PrefixStep(last.message, ConfiguredPrefix) = last.message
           /\ (last.message_arg.given
               /\ StartsWith(last.message_arg.text, ConfiguredPrefix))
                 => last.message = last.message_arg.text

\* C10, the case: a commit was made with a message argument that already
\* started with the configured, non-empty prefix
C10_Witness ==
    /\ last.op = "commit_changes"
    /\ last.outcome = "ok"
    /\ last.message_arg.given
    /\ ConfiguredPrefix # ""
    /\ StartsWith(last.message_arg.text, ConfiguredPrefix)
    /\ last.message = last.message_arg.text
    /\ Last(commits).message = last.message

\* the lines of the text once the whitespace around it is trimmed
TrimmedLines(code) == SplitLines(Strip(code, Whitespace))

\* the lines of ls from the one after the first to the one before the last
Between(ls) == SubSeq(ls, 2, Len(ls) - 1)

C12_RefactorReturnsCleaned ==
    [][(/\ last'.op = "refactor_file"
        /\ Target(last'.path) \in DOMAIN files
        /\ InRepo(Target(last'.path))
        /\ ~TargetProtected(last'.path)
        /\ last'.outcome # "LLMError")
          => /\ last'.outcome = "ok"
             /\ last'.text = CleanCodeOutput(last'.llm_text)
             /\ IF dry_run
                THEN files' = files
                ELSE files'[Target(last'.path)] = last'.text]_vars

\* C12, the case: outside dry_run, a fenced LLM text was written to the file
\* without its fences
C12_Witness ==
    /\ last.op = "refactor_file"
    /\ ~dry_run
    /\ last.outcome = "ok"
    /\ StartsWith(last.llm_text, Fence)
    /\ last.text = "a\r\nb"
    /\ files[Target(last.path)] = last.text

\* the calls that run a command
RunnerOps ==
    {"run_command", "runner.run_command", "run_tests", "runner.run_tests",
     "runner.run_linter", "runner.run_formatter", "runner.run_script"}

\* C13: every dictionary a runner call returns has success exactly when the
\* return code is 0; after a timeout, an exception of subprocess.run or a
\* missing script it has success false, the return code -1, an empty stdout
\* and a diagnostic in stderr; and no runner call raises.
C13_RunnerResult ==
    last.op \in RunnerOps
        => /\ last.outcome = "ok"
           /\ last.result.kind = "dict"
                 => /\ last.result.success = (last.result.returncode = 0)
                    /\ last.result.cause \in {"timeout", "exception", "missing"}
                          => /\ ~last.result.success
                             /\ last.result.returncode = -1
                             /\ last.result.stdout = ""
                             /\ last.result.stderr # ""

\* C13, the case: a linter that exited with the return code 1 before the
\* timeout
C13_Witness ==
    /\ last.op = "runner.run_linter"
    /\ last.process = Exits(1, 1)
    /\ last.result.returncode = 1
    /\ ~last.result.success
    /\ last.result.stderr = "err"

\* C14: every run_command call returns, and when the process does not exit
\* on its own the result has success false, the return code -1 and a stderr
\* that contains "timed out", whatever tasks.timeout entry the agent was
\* constructed from and whatever the timeout argument.
C14_RunCommandReturns ==
    last.op \in {"run_command", "runner.run_command"}
        => /\ last.result.kind = "dict"
           /\ last.process.kind = "forever"
                 => /\ ~last.result.success
                    /\ last.result.returncode = -1
                    /\ Contains(last.result.stderr, "timed out")

\* the patterns analyze_codebase works on for the argument
PatternsUsed(patterns) ==
    IF patterns.given THEN patterns.list ELSE DefaultPatterns

RECURSIVE SumOfMatches(_, _)
\* the sum over the patterns of the number of files that match
SumOfMatches(fs, list) ==
    IF list = <<>> THEN 0
    ELSE Cardinality(RGlob(fs, Head(list))) + SumOfMatches(fs, Tail(list))

\* C20: analyze_codebase returns as total_files the sum over its patterns of
\* the number of matching files, a file counting once for each pattern it
\* matches, and as files the first min(total_files, 100) entries of the
\* matches of the patterns put one after the other; it changes no file and
\* no state of git or of the agent.
C20_AnalyzeCodebase ==
    [][last'.op = "analyze_codebase"
          => LET list  == PatternsUsed(last'.patterns_arg)
                 found == FindAll(files, list)
                 total == SumOfMatches(files, list)
             IN  /\ last'.outcome = "ok"
                 /\ last'.result.total_files = total
                 /\ Len(last'.result.files)
                        = IF total < DisplayLimit THEN total ELSE DisplayLimit
                 /\ last'.result.files
                        = SubSeq(found, 1, Len(last'.result.files))
                 /\ UNCHANGED <<repoVars, agentVars>>]_vars

\* C20, the case: more than 100 matches, of which 100 are listed, each file
\* once for each of the patterns
C20_Witness ==
    /\ last.op = "analyze_codebase"
    /\ last.result.total_files > DisplayLimit
    /\ Len(last.result.files) = DisplayLimit
    /\ last.result.files[1] = "a.py"
    /\ last.result.files[3] = "a.py"
(***************************************************************************)
(* Properties of the LLM client, of SpecLLM.                               *)
(***************************************************************************)
\* the operations that read the llm property
LLMOps == {"refactor_file", "analyze_file", "execute_task", "commit_changes"}

\* C15: the client is constructed at most once in the life of an agent:
\* once there is a client, every later operation leaves it the same object
\* and constructs none, no operation constructs more than one, and every
\* request an operation makes to the LLM goes to that one client.
C15_ClientBuiltOnce ==
    [][/\ llm.serial > 0 => llm' = llm /\ last'.clients = 0
       /\ llm'.serial <= 1
       /\ last'.clients <= 1
       /\ last'.clients = 1 => llm.serial = 0 /\ llm'.serial = 1
       /\ last'.op \in LLMOps /\ last'.llm_calls > 0 => llm'.serial = 1]_vars

\* an operation has made its request on the client an earlier one built
C15_Witness ==
    /\ last.op = "execute_task"
    /\ last.outcome = "ok"
    /\ last.llm_calls = 1
    /\ last.clients = 0
    /\ llm.serial = 1

\* the arguments _init_llm reads from a configuration
ConfiguredArgs(cfg) ==
    [provider |-> ConfigGet(cfg.llm_provider, "openai"),
     model |-> ConfigGet(cfg.llm_model, ""),
     temperature |-> ConfigGet(cfg.llm_temperature, "0.7"),
     max_tokens |-> ConfigGet(cfg.llm_max_tokens, "2000")]

\* C16, as stated: the client carries the parameters the configuration
\* held when the first operation that uses the LLM was made.
C16_ParametersOfFirstUse ==
    llm.serial > 0 => llm = LLMClient(first_llm_use.args, 1)

\* C16, amended: the client carries the parameters the configuration holds
\* when the operation that constructs the client is made, and no change of
\* the configuration after that alters the client.
C16_ParametersOfConstruction ==
    [][/\ llm.serial = 0 /\ llm'.serial > 0
              => llm' = LLMClient(ConfiguredArgs(config), 1)
       /\ llm.serial > 0 => llm' = llm]_vars

\* a client built for a provider set before its construction, under a
\* configuration that has since been set to another provider
C16_Witness ==
    /\ llm.serial = 1
    /\ llm.provider = "anthropic"
    /\ ConfigGet(config.llm_provider, "openai") = "azure"
    /\ llm.temperature = "0"
    /\ ConfigGet(config.llm_temperature, "0.7") = "0.7"

(***************************************************************************)
(* Properties of the Config object, of SpecConfig.                         *)
(***************************************************************************)
\* every segment of keys is a key of a mapping of the tree
Reached(tree, keys) ==
    /\ keys \in DOMAIN tree
    /\ \A i \in 0..(Len(keys) - 1) : tree[SubSeq(keys, 1, i)].t = "dict"

\* C17: get raises nothing; it returns the default when a segment of the
\* key is absent or lies below a value that is not a mapping, and the value
\* at the key when the whole path exists with a value that is not None,
\* falsy values included.
C17_GetNeverRaises ==
    config_call.op = "get" =>
        LET keys == Split(config_call.key)
        IN  /\ config_call.outcome = "ok"
            /\ ~Reached(config_tree, keys)
                   => config_call.value = config_call.arg
            /\ Reached(config_tree, keys) /\ config_tree[keys] # None
                   => config_call.value = Sub(config_tree, keys)

\* a lookup below a string has returned the caller's default
C17_Witness ==
    /\ config_call.op = "get"
    /\ config_call.key = "llm.model.name"
    /\ <<"llm", "model">> \in DOMAIN config_tree
    /\ config_tree[<<"llm", "model">>].t = "str"
    /\ config_call.arg = Leaf(Str("default"))
    /\ config_call.value = Leaf(Str("default"))

\* neither key is the other or a prefix of the other
Unrelated(j, k) ==
    /\ ~IsPrefix(Split(j), Split(k))
    /\ ~IsPrefix(Split(k), Split(j))

\* C18: for every tree, set(k, v) succeeds, get(k) then returns v, and get
\* of every key that lies neither on nor below the path of k returns what
\* it returned before.
C18_SetSucceeds ==
    config_call.op = "set" =>
        /\ config_call.outcome = "ok"
        /\ Get(config_tree, config_call.key, Leaf(None)).value
               = config_call.arg
        /\ \A j \in GetKeys \cup SetKeys, d \in GetDefaults :
               Unrelated(j, config_call.key)
                   => Get(config_tree, j, d) = Get(config_call.before, j, d)

\* C19: a Config constructed from the file that save has just written for
\* an instance is constructed, and returns from get, for every key and
\* every default, what the instance returns.
C19_SaveLoadRoundTrip ==
    config_call.op = "Config" /\ config_file = Save(config_tree) =>
        /\ config_call.outcome = "ok"
        /\ \A keys \in (DOMAIN config_tree \cup DOMAIN config_call.value
                            \cup {Split(k) : k \in GetKeys}) \ {<<>>},
              d \in GetDefaults :
               GetFrom(config_call.value, <<>>, keys, d)
                   = GetFrom(config_tree, <<>>, keys, d)

(***************************************************************************)
(* Properties of the test-command detection, of SpecRunner.                *)
(***************************************************************************)
\* the marker files in the order they are looked for, each with its command
TestMarkers ==
    <<[markers |-> {"pytest.ini", "setup.py"}, command |-> "pytest"],
      [markers |-> {"package.json"}, command |-> "npm test"],
      [markers |-> {"Makefile"}, command |-> "make test"],
      [markers |-> {"tox.ini"}, command |-> "tox"]>>

\* the entries of TestMarkers that have a marker file in the root
Present(fs) ==
    {i \in 1..Len(TestMarkers) :
        \E name \in TestMarkers[i].markers : Exists(fs, name)}

\* the command of the first entry present, "pytest" when none is
ByPriority(fs) ==
    IF Present(fs) = {} THEN "pytest"
    ELSE TestMarkers[CHOOSE i \in Present(fs) :
                         \A j \in Present(fs) : i <= j].command

\* C27: the dictionary run_tests returns names, as test_command, the custom
\* command when one was given and otherwise the command of the first marker
\* present in the fixed order, followed by a space and the test path when a
\* path was given.
C27_TestCommandDetection ==
    last.op \in {"run_tests", "runner.run_tests"} /\ last.result.kind = "dict"
        => last.result.command =
               (IF last.command_arg.given THEN last.command_arg.text
                ELSE ByPriority(files))
               \o (IF last.name # "" THEN " " \o last.name ELSE "")

\* package.json and a Makefile are both there, no pytest marker is, and the
\* tests of a path were run with npm
C27_Witness ==
    /\ last.op = "run_tests"
    /\ last.name = "tests"
    /\ Exists(files, "package.json") /\ Exists(files, "Makefile")
    /\ ~Exists(files, "pytest.ini") /\ ~Exists(files, "setup.py")
    /\ last.result.kind = "dict"
    /\ last.result.command = "npm test tests"

(***************************************************************************)
(* Properties of the commit message and of the commit, of Spec.            *)
(***************************************************************************)
\* the text once the whitespace around it, then the backticks, then the
\* double and the single quotes around it are trimmed
Trimmed(text) ==
    Strip(Strip(Strip(Strip(text, Whitespace), {Backtick}), {"\""}), {"'"})

\* the message with the configured prefix in front, unless it starts with it
Prefixed(message) ==
    IF StartsWith(message, ConfiguredPrefix) THEN message
    ELSE ConfiguredPrefix \o " " \o message

C26_CommitsChangeSomething ==
    \A i \in 1..Len(commits) : commits[i].changes # {}

\* C28: when commit_changes has the LLM write the commit message, the diff
\* it hands to the LLM covers the files the resulting commit changes and no
\* others, on a direct call and on the auto-commit of write_file and
\* refactor_file.
C28_DiffCoversCommit ==
    (/\ last.op \in {"commit_changes", "write_file", "refactor_file"}
     /\ last.llm_diff.sent
     /\ last.outcome = "ok"
     /\ last.warning = "")
        => Last(commits).changes = last.llm_diff.paths

(***************************************************************************)
(* Properties of the operations that need no generated text, of SpecPlain. *)
(***************************************************************************)
\* the calls that need no generated text, made with dry_run as given
NeedsNoText(call, dry) ==
    \/ call.op \in {"read_file", "analyze_codebase", "get_status",
                    "run_tests", "run_command", "create_branch"}
    \/ call.op = "write_file" /\ (~call.flag \/ dry)
    \/ call.op = "commit_changes" /\ (call.message_arg.given \/ dry)

\* C30: the agent is constructed without a client, and read_file,
\* analyze_codebase, get_status, run_tests, run_command, create_branch,
\* write_file with commit=false, commit_changes with a message, and
\* write_file and commit_changes under dry_run neither construct nor use the
\* client and never fail for want of it: there is a client only once some
\* other operation has used the llm property.
C30_NoClientWithoutText ==
    /\ [](llm.serial > 0 => first_llm_use.seen)
    /\ [][NeedsNoText(last', dry_run)
             => /\ llm' = llm
                /\ first_llm_use' = first_llm_use
                /\ last'.clients = 0
                /\ last'.llm_uses = 0
                /\ last'.outcome # "LLMError"
                /\ last'.warning # "LLMError"]_vars

\* C30, the case: after a write without commit, commit_changes with a
\* message has committed the change and the agent still has no client
C30_Witness ==
    /\ last.op = "commit_changes"
    /\ last.message_arg.given
    /\ ~dry_run
    /\ last.outcome = "ok"
    /\ Len(commits) = 1
    /\ Last(commits).changes # {}
    /\ llm.serial = 0
    /\ ~first_llm_use.seen

Denoted(file_path) ==
    IF file_path.abs THEN Location(file_path)
    ELSE Normalize(repo_path.segs \o file_path.segs)

\* the repository-relative form of the path: of an absolute path below or
\* at the root the part after the root, of a relative path the path
RelativeForm(file_path) ==
    IF file_path.abs
    THEN RelStr(SubSeq(Denoted(file_path), Len(repo_path.segs) + 1,
                       Len(Denoted(file_path))))
    ELSE RelStr(file_path.segs)

\* C24: is_protected(p) is true exactly when p is absolute and not under
\* the repository root, or the repository-relative form of p, or that form
\* followed by '/**', matches one of the patterns.
C24_ProtectedExactlyWhen ==
    last.op = "file_ops.is_protected"
        => last.result.value =
               (\/ /\ last.path.abs
                   /\ ~IsPrefix(repo_path.segs, Denoted(last.path))
                \/ /\ last.path.abs => IsPrefix(repo_path.segs,
                                                Denoted(last.path))
                   /\ \E i \in 1..Len(protected_patterns) :
                          \/ Fnmatch(RelativeForm(last.path),
                                     protected_patterns[i])
                          \/ Fnmatch(RelativeForm(last.path) \o "/**",
                                     protected_patterns[i]))

\* the gate has patterns, and the defaults when the configuration gave none
GateHasPatterns ==
    /\ protected_patterns # <<>>
    /\ ConfigGet(config.protected_files, <<>>) = <<>>
           => protected_patterns = DefaultProtectedPatterns

\* the location lies below .git, .github or config of the repository
UnderDefaultDirs(loc) ==
    /\ InRepo(loc)
    /\ loc[Len(repo_path.segs) + 1] \in {".git", ".github", "config"}

\* C29: the gate never has zero patterns; when the configuration has no
\* list of protected files, or an empty one, the gate has the defaults, and
\* every write without force that leads below .git, .github or config is
\* refused and changes no file.
C29_DefaultsRefuseWrites ==
    /\ []GateHasPatterns
    /\ [][(/\ GatedWrite(last', dry_run)
           /\ ConfigGet(config.protected_files, <<>>) = <<>>
           /\ UnderDefaultDirs(Target(last'.path)))
             => /\ last'.outcome = "PermissionError"
                /\ files' = files]_vars

(***************************************************************************)
(* Properties of the command line, of SpecCli.                             *)
(***************************************************************************)
\* the command line after --dry-run, if that was given
Invoked(argv) ==
    IF argv # <<>> /\ Head(argv) = "--dry-run" THEN Tail(argv) ELSE argv

\* --dry-run was given
DryRunGiven(argv) == argv # <<>> /\ Head(argv) = "--dry-run"

\* the invocation was of this subcommand
Subcommand(argv, name) == Invoked(argv) # <<>> /\ Head(Invoked(argv)) = name

\* C21: the test subcommand runs the tests, and the run subcommand runs the
\* command string it is given, once through the agent, and the exit code
\* of the process is 0 when the result has success true and 1 when it has
\* success false.
C21_TestAndRunPropagate ==
    last.op = "cli"
        => /\ Subcommand(last.argv, "test")
                 => /\ last.called = "run_tests"
                    /\ last.result.kind = "dict"
                    /\ last.exit_code = IF last.result.success THEN 0 ELSE 1
           /\ (Subcommand(last.argv, "run") /\ Len(Invoked(last.argv)) = 2)
                 => /\ last.called = "run_command"
                    /\ last.ran = Command(Invoked(last.argv)[2])
                    /\ last.result.kind = "dict"
                    /\ last.exit_code = IF last.result.success THEN 0 ELSE 1

\* C22: an invocation that constructs the agent leaves its dry_run true
\* when --dry-run was given, whatever the configuration says, and at the
\* configured value otherwise; a write, refactor, commit or branch
\* subcommand with --dry-run changes no file and nothing in git.
C22_DryRunSwitch ==
    [][last'.op = "cli"
          => /\ last'.constructed
                   => dry_run' = IF DryRunGiven(last'.argv) THEN TRUE
                                 ELSE ConfigGet(config.dry_run, FALSE)
             /\ (/\ DryRunGiven(last'.argv)
                 /\ \E c \in {"write", "refactor", "commit", "branch"} :
                        Subcommand(last'.argv, c))
                   => /\ last'.constructed
                      /\ UNCHANGED repoVars]_vars

\* C22, the case: under a configuration that does not set dry_run, the
\* write subcommand with --dry-run has called write_file and a.py is as it
\* was
C22_Witness ==
    /\ last.op = "cli"
    /\ last.argv = <<"--dry-run", "write", "a.py", "y">>
    /\ ~ConfigGet(config.dry_run, FALSE)
    /\ last.called = "write_file"
    /\ last.exit_code = 0
    /\ dry_run
    /\ files = InitFiles
    /\ commits = <<>>

====
